------------------------------- MODULE MCEspVfs -------------------------------
(***************************************************************************)
(* Small loads of EspVfs for TLC: two tasks that fill the table; two that  *)
(* open, use and remove the same files; one that opens files while the     *)
(* other moves them and their directories; one that lists the root, or goes *)
(* back and forth in it, while the other changes it.                       *)
(***************************************************************************)
EXTENDS EspVfs

CONSTANTS t1, t2

MCTask == {t1, t2}
Load(names, most, calls1, calls2) ==
  [names |-> names, files |-> most, calls |-> t1 :> calls1 @@ t2 :> calls2]

MCLoads ==
  {Load({1}, 3, {"open", "close", "unlink"}, {"open", "close", "stat"}),
   Load({1, 2}, 2, {"open", "close", "move", "transfer", "unlink"},
                   {"open", "close", "transfer", "use"}),
   Load({1, 2}, 2, {"open", "close", "truncate", "unlink"},
                   {"open", "rename", "mkdir", "rmdir"}),
   Load({1, 2, 3}, 0, {"opendir", "readdir", "closedir"}, {"rename", "mkdir", "rmdir"}),
   Load({1, 2}, 0, {"opendir", "readdir", "telldir", "seekdir", "rewinddir"},
                   {"rename", "mkdir", "rmdir"})}
===============================================================================
