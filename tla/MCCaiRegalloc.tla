---------------------------- MODULE MCCaiRegalloc ----------------------------
(***************************************************************************)
(* Small .cai files for CaiRegalloc: function n of a file has up to        *)
(* MCMaxLen[n] instructions over two plain variables, two .ptr slots and   *)
(* two arguments.                                                          *)
(***************************************************************************)
EXTENDS CaiRegalloc

MCMaxLen == <<3, 2>>   \* bound: instructions of the n-th function

MCNames == {"%x", "%y", "%p.ptr", "%q.ptr", "%arg0", "%arg1"}
MCPtrNames == {"%p.ptr", "%q.ptr"}
MCArgNames == <<"%arg0", "%arg1">>

Ins(k, ops, args, size) == [k |-> k, ops |-> ops, args |-> args, size |-> size]

\* alloc with and without a size of its own, a parameter store, a load, an
\* arithmetic, an f32 operation, a call
MCInstrs == {
  Ins("alloc", <<"%p.ptr">>, <<>>, 16),
  Ins("alloc", <<"%q.ptr">>, <<>>, 4),
  Ins("int", <<"%p.ptr", "%arg1">>, <<>>, 0),
  Ins("int", <<"%x", "%p.ptr">>, <<>>, 0),
  Ins("int", <<"%y", "%x", "%x">>, <<>>, 0),
  Ins("float", <<"%x", "%y">>, <<>>, 0),
  Ins("call", <<"%y">>, <<"%x">>, 0) }

MCBodies == [f \in 1 .. MaxFuncs |-> UNION {[1 .. n -> MCInstrs] : n \in 1 .. MCMaxLen[f]}]
=============================================================================
