---------------------------- MODULE MCNameNode ----------------------------
\* NameNode for TLC: a superuser and another user, and mode 0755.
EXTENDS NameNode

UsersFew == {[uid |-> 0, gid |-> 0], [uid |-> 1, gid |-> 1]}
ModesFew == {{0, 2, 3, 5, 6, 7, 8}}
===========================================================================
