----------------------------- MODULE AtomicVolume -----------------------------
(***************************************************************************)
(* What the journal promises to the users of a volume.  There is the       *)
(* directory structure as the running system has it and the one that       *)
(* survives a crash; a sync replaces the second by the first at one        *)
(* instant; a mount starts again from what was saved, without the files    *)
(* nobody had finished creating.                                           *)
(***************************************************************************)
VARIABLES live,   \* name -> file, while the volume is mounted
          saved,  \* name -> file, after a crash now
          up      \* the volume is mounted

vars == <<live, saved, up>>
Empty == [n \in {} |-> n]

Init == live = Empty /\ saved = Empty /\ up = TRUE

Operate == up /\ UNCHANGED <<saved, up>>

Commit == up /\ saved' = live /\ UNCHANGED <<live, up>>

Crash == live' = Empty /\ up' = FALSE /\ UNCHANGED saved

Recover ==
  /\ ~up /\ up' = TRUE
  /\ live' = [n \in {m \in DOMAIN saved : ~saved[m].stub} |-> saved[n]]
  /\ UNCHANGED saved

Next == Operate \/ Commit \/ Crash \/ Recover

Spec == Init /\ [][Next]_vars
=============================================================================
