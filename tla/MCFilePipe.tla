----------------------------- MODULE MCFilePipe -----------------------------
(* Instances of FilePipe for TLC.                                          *)
EXTENDS FilePipe

CONSTANTS u1, u2, u3, q1, q2, q3, q4, m1, m2, vop

TwoUsers == {u1, u2}
ThreeUsers == {u1, u2, u3}
MCFqs == {q1, q2, q3, q4}
TwoMIoqs == {m1, m2}
MCIoqs == TwoUsers \cup MCFqs \cup TwoMIoqs \cup {vop}
MoreIoqs == MCIoqs \cup {u3}
TwoFds == {"fd3", "fd4"}
MCMutexes == TwoFds \cup {"filep", "vol"}

Ask(op, fd, where, len) == [op |-> op, fd |-> fd, where |-> where, len |-> len, whence |-> "none"]
Seek(fd, where, whence) == [Ask("lseek", fd, where, 0) EXCEPT !.whence = whence]

\* A read of no bytes.
Nothing(where) == Ask("readwpos", "fd3", where, 0)

\* Reads of whole sectors and of parts, of two files, writes of one sector or two, seeks, what
\* upsets them.
MCCalls == {Ask("readwpos", "fd3", 1, 3), Ask("readwpos", "fd3", 0, 1), Ask("readwpos", "fd4", 1, 1),
            Ask("read", "fd3", 0, 2), Ask("writewpos", "fd3", 2, 1), Ask("write", "fd3", 0, 3),
            Ask("cancel", "fd3", 0, 0), Ask("close", "fd3", 0, 0), Seek("fd3", 1, "SEEK_CUR"),
            Seek("fd3", -2, "SEEK_SET"), Seek("fd3", 0, "other"), Nothing(0)}
MCJoins == {{1}}
=============================================================================
