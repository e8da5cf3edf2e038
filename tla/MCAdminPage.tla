----------------------------- MODULE MCAdminPage ------------------------------
(***************************************************************************)
(* Instances of AdminPage for TLC.                                         *)
(***************************************************************************)
EXTENDS AdminPage, TLC

CONSTANTS r1, r2, s1, s2

Ids2 == {r1, r2}
Slots2 == {s1, s2}

(* Each pair of actions that meet, on the kinds that differ in them: the   *)
(* others do what one of these does, or less.                              *)
Cases2 ==
  {"deploymenttpl", "namespace", "appuser", "appwebhook"} \X {{"dialog", "delete"}}
  \cup {"deploymenttpl", "appuser", "appwebhook"} \X {{"dialog", "leave"}}
  \cup {"apikey", "appuser", "appwebhook"} \X {{"refresh", "dialog"}}
  \cup {"deployment", "daemonset", "ingresstpl", "autoscale", "customlink", "apikey", "user",
          "appwebhook"}
         \X {{"delete", "leave"}}
  \cup {"deploymenttpl", "customlink", "appwebhook"} \X {{"rewrite", "leave"}}

Symmetry == Permutations(Slots) \cup Permutations(Ids)
===============================================================================
