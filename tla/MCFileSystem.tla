---------------------------- MODULE MCFileSystem ----------------------------
(***************************************************************************)
(* Small instances of FileSystem: contents of one and of two blocks, and   *)
(* one sector more than a file can hold.                                   *)
(***************************************************************************)
EXTENDS FileSystem

MCContents == {<<1>>, <<2, 1, 2>>, <<1, 1, 1, 1, 1>>}
MCDelivered == {[name |-> "X", contents |-> <<2, 1, 2>>]}
FewContents == {<<1>>, <<2, 1, 2>>}
=============================================================================
