------------------------------ MODULE MCAtapi ------------------------------
EXTENDS Atapi
P(op, lba, n, size, max) == [op |-> op, lba |-> lba, n |-> n, size |-> size, max |-> max]
MCPackets ==
    {P(op, 0, 0, 0, 0) : op \in {"tur", "ok", "field", "opcode"}}
    \cup {P("sense", 0, 0, 4, 4), P("inquiry", 0, 0, 6, 3), P("config", 0, 0, 4, 0), P("mode", 0, 0, 2, 2),
          P("toc", 0, 0, 6, 5), P("capacity", 0, 0, 2, 2), P("seek", 1, 0, 0, 0), P("seek", 2, 0, 0, 0)}
    \cup {P("read", 0, 0, 0, 0), P("read", 0, 2, 0, 0), P("read", 1, 1, 0, 0), P("read", 1, 2, 0, 0), P("raw", 0, 1, 0, 0),
          \* sectors 0xffffffff and 0xfffffffe
          P("read", -1, 1, 0, 0), P("read", -2, 1, 0, 0), P("read", -2, 2, 0, 0), P("raw", -1, 1, 0, 0)}
MCStrings == {<<1, 1>>, <<2, 3>>}
=============================================================================
