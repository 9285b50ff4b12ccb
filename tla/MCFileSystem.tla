---------------------------- MODULE MCFileSystem ----------------------------
(* Small storages for TLC: a header takes 1 byte, a base name and an extension *)
(* 1 each (2 for X1), so that a record of empty value takes 5 bytes (6).       *)
EXTENDS FileSystem

CONSTANTS a, X1

MCReserved == {<<X1, "lis">>}
MCPrecedence == [e \in Extension |->
  CASE e \in {"func", "seq"} -> 2 [] e \in {"exp", "lis"} -> 3 [] OTHER -> -1]
MCSizeOfBase == [b \in BaseName |-> IF b = X1 THEN 2 ELSE 1]
MCSizeOfExtension == [e \in Extension |-> 1]
MCSizeOfValue == [v \in Value |-> v]
MCSystemRecords == {[name |-> [base |-> a, ext |-> "sys"], pos |-> 0, size |-> 5, value |-> 0],
                    [name |-> [base |-> X1, ext |-> "sys"], pos |-> 5, size |-> 6, value |-> 0]}

=============================================================================
