---------------------------- MODULE MCFileStore ----------------------------
(***************************************************************************)
(* FileStore for TLC: a root directory and one search directory.  The file *)
(* "old" is in both, "sum" is an md5 sum that a .md5 file of the search    *)
(* directory gives to "old", and a .md5 file of the root directory to      *)
(* "new", which only an upload creates.                                    *)
(***************************************************************************)
EXTENDS FileStore

Reading(n) == [type |-> "read", name |-> n]
Writing(n) == [type |-> "write", name |-> n]

TwoDirs == <<"root", "backup">>

AllRequests ==
  {Reading("old"), Reading("new"), Reading("sum"), Reading("part"),
   Writing("old"), Writing("new")}

OldWrite == {Writing("old"), Reading("old")}

OldFiles == {<<"root", "old">>, <<"backup", "old">>, <<"backup", "part">>}

SumFiles ==
  {[dir |-> "root", sum |-> "sum", companion |-> <<"root", "new">>,
    listed |-> <<"root", "sum">>],
   [dir |-> "backup", sum |-> "sum", companion |-> <<"backup", "new">>,
    listed |-> <<"backup", "old">>]}

NoSumFiles == {}
OldRoot == {<<"root", "old">>}
=============================================================================
