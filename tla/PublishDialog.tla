---------------------------- MODULE PublishDialog ----------------------------
(***************************************************************************)
(* The publish dialog of a portal page: the requests that it sends for the *)
(* checked clusters, one each and all at once, and their answers.  The     *)
(* dialog closes when it has sent them and may be opened again before the  *)
(* answers arrive.                                                         *)
(*                                                                         *)
(*   publish  the object is sent to the cluster, whose server also records *)
(*            the publication                                              *)
(*   offline  the object is deleted, and on that answer the record; force  *)
(*            deletes the record although the object's deletion failed     *)
(***************************************************************************)
EXTENDS ResourceKinds, FiniteSets

CONSTANTS Kinds,     \* the kinds of page that are looked at
          Ids,       \* the resources
          Clusters   \* numbered: lists of publications are in this order

ASSUME DialogAssumption ==
  Kinds \subseteq PageKinds /\ Ids \subseteq Nat \ {0} /\ Clusters \subseteq Nat \ {0}

VARIABLES kind,      \* which page this is
          online,    \* per resource: the clusters that publish_status names
          calls      \* per cluster: the request under way

dialogVars == <<kind, online, calls>>

Phases == {"none",
           "sent",       \* not handled yet
           "served",     \* handled; the answer is on its way
           "refused",    \* an error is on its way
           "joined",     \* answered; forkJoin waits for the other clusters
           "removing",   \* offline: the record's deletion is sent
           "removed",    \* ... and handled
           "kept",       \* ... and refused
           "aborted"}    \* forkJoin gave it up; the server may have it

Call == [op : {"none", "publish", "offline", "force"}, of : Ids \cup {0},
         at : Phases, batch : SUBSET Clusters]

NoCall == [op |-> "none", of |-> 0, at |-> "none", batch |-> {}]

Idle(c) == calls[c].at = "none"
Joins == Features[kind].publishing.joins

DialogInit ==
  /\ kind \in Kinds
  /\ online \in [Ids -> SUBSET Clusters]
  /\ calls = [c \in Clusters |-> NoCall]

(* onSubmit for the checked clusters cs.                                   *)
Submit(op, r, cs) ==
  /\ cs # {}
  /\ \A c \in cs : Idle(c)
  /\ op = "force" => Features[kind].publishing.forces
  /\ calls' = [c \in Clusters |->
                 IF c \in cs
                   THEN [op |-> op, of |-> r, at |-> "sent",
                         batch |-> IF op = "publish" /\ Joins THEN cs ELSE {c}]
                   ELSE calls[c]]
  /\ UNCHANGED <<kind, online>>

To(c, at) == calls' = [calls EXCEPT ![c].at = at]

(* The server has handled the request, or refuses it, or its answer is     *)
(* lost after it was handled.                                              *)
Handle(c) ==
  /\ calls[c].at = "sent"
  /\ IF calls[c].op = "publish"
       THEN \/ /\ online' = [online EXCEPT ![calls[c].of] = @ \cup {c}]
               /\ To(c, "served") \/ To(c, "refused")
            \/ To(c, "refused") /\ UNCHANGED online
       ELSE (To(c, "served") \/ To(c, "refused")) /\ UNCHANGED online
  /\ UNCHANGED kind

(* DeleteById of the record.  A record that is gone is an error.           *)
HandleRemoval(c) ==
  /\ calls[c].at = "removing"
  /\ \/ /\ c \in online[calls[c].of]
        /\ online' = [online EXCEPT ![calls[c].of] = @ \ {c}]
        /\ To(c, "removed") \/ To(c, "kept")
     \/ To(c, "kept") /\ UNCHANGED online
  /\ UNCHANGED kind

(* A request that forkJoin has given up reaches the server, or not.        *)
HandleAborted(c) ==
  /\ calls[c].at = "aborted"
  /\ online' = [online EXCEPT ![calls[c].of] = @ \cup {c}] \/ UNCHANGED online
  /\ calls' = [calls EXCEPT ![c] = NoCall]
  /\ UNCHANGED kind

(* The whole batch is answered, c the last.                                *)
Completes(c) == \A d \in calls[c].batch \ {c} : calls[d].at = "joined"

(* The answer of a publish.                                                *)
PublishAnswered(c) ==
  /\ calls[c].op = "publish"
  /\ calls[c].at = "served"
  /\ IF Completes(c)
       THEN calls' = [d \in Clusters |-> IF d \in calls[c].batch THEN NoCall ELSE calls[d]]
       ELSE To(c, "joined")
  /\ UNCHANGED <<kind, online>>

(* The first error of a batch ends it: forkJoin drops the other requests.  *)
PublishFailed(c) ==
  /\ calls[c].op = "publish"
  /\ calls[c].at = "refused"
  /\ calls' = [d \in Clusters |->
                 IF d \notin calls[c].batch THEN calls[d]
                 ELSE IF calls[d].at = "sent" THEN [calls[d] EXCEPT !.at = "aborted"]
                 ELSE NoCall]
  /\ UNCHANGED <<kind, online>>

(* The answer of the object's deletion.                                    *)
OfflineAnswered(c) ==
  /\ calls[c].op \in {"offline", "force"}
  /\ calls[c].at \in {"served", "refused"}
  /\ IF calls[c].at = "served" \/ calls[c].op = "force"
       THEN To(c, "removing")
       ELSE calls' = [calls EXCEPT ![c] = NoCall]
  /\ UNCHANGED <<kind, online>>

(* The answer of deletePublishStatus.                                      *)
RemovalAnswered(c) ==
  /\ calls[c].at \in {"removed", "kept"}
  /\ calls' = [calls EXCEPT ![c] = NoCall]
  /\ UNCHANGED <<kind, online>>

(* Mutant of RefreshesOnError: it is a matter of success.                  *)
RefreshesNever == FALSE

(* forkJoin refreshes the page on an error too: some clusters may have     *)
(* succeeded before.                                                       *)
RefreshesOnError == Joins

(* Whether the step that answers c emits published, which refreshes the    *)
(* page.                                                                   *)
Publishes(c) ==
  \/ PublishAnswered(c) /\ Completes(c)
  \/ PublishFailed(c) /\ RefreshesOnError
  \/ RemovalAnswered(c) /\ calls[c].at = "removed"

(* ... or does not.                                                        *)
Goes(c) ==
  \/ PublishAnswered(c) /\ ~Completes(c)
  \/ PublishFailed(c) /\ ~RefreshesOnError
  \/ OfflineAnswered(c)
  \/ RemovalAnswered(c) /\ calls[c].at = "kept"

Serves(c) == Handle(c) \/ HandleRemoval(c) \/ HandleAborted(c)

(* Every variable has its type.                                            *)
DialogTypeOK ==
  /\ kind \in Kinds
  /\ online \in [Ids -> SUBSET Clusters]
  /\ calls \in [Clusters -> Call]
==============================================================================
