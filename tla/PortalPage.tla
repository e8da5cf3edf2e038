------------------------------ MODULE PortalPage ------------------------------
(***************************************************************************)
(* A page of the portal: the tabs of the resources of one kind, the        *)
(* templates of the selected one with the clusters that run them, the      *)
(* status requests that are sent for each of those every five seconds, the *)
(* deletion of the resource, and the publish dialog.  One component        *)
(* instance, from its first request until every answer has come, which may *)
(* be after the user has left the page.                                    *)
(*                                                                         *)
(* Nothing cancels a request, and answers come in any order.               *)
(***************************************************************************)
EXTENDS PublishDialog, Sequences, FiniteSetsExt

CONSTANTS Workloads,   \* the sets of actions to look at together
          Slots,       \* bound: the requests under way, but the dialog's
          MaxPolls,    \* bound: the status requests under way
          MaxActs,     \* bound: what the user does on the page
          MaxOthers    \* bound: publications that others change

Actions == {"tab", "refresh", "delete", "create", "leave", "publish", "poll", "others"}

ASSUME PageAssumption ==
  /\ Workloads \subseteq SUBSET Actions
  /\ IsFiniteSet(Clusters)
  /\ MaxPolls \in Nat /\ MaxActs \in Nat /\ MaxOthers \in Nat

VARIABLES load,      \* the workload; without "poll", status requests are left out
          db,        \* the resources of the application
          page,      \* the fields of the component
          entries,   \* the status entries of the template list, in order
          net,       \* per slot: the request under way
          polls,     \* status requests under way, counted per <<entry, cluster>>
          acts, others,  \* the bounded steps so far
          asked,     \* history variable: whose templates were last asked for
          deleted,   \* history variable: what this page has deleted
          told,      \* history variable: a request failed, and the user was told
          oldTabs,   \* history variable: an overtaken answer has changed the tabs
          muddled    \* history variable: the list answered last may be out of
                     \* date: a later one was overtaken, or failed, or the
                     \* table changed behind the page's back

pageVars == <<load, db, page, entries, net, polls, acts, others>>
history == <<asked, deleted, told, oldTabs, muddled>>
vars == <<dialogVars, pageVars, history>>

(* id, ids: the selected resource and the tabs; route: the address; of and *)
(* shown: whose templates are listed, and its clusters; dialog: what the   *)
(* deletion dialog asks about.                                             *)
Page == [id : Ids \cup {0}, route : Ids, ids : SUBSET Ids, loaded : BOOLEAN,
         of : Ids \cup {0}, shown : SUBSET Clusters, dialog : Ids \cup {0}, left : BOOLEAN]

Entry == [cluster : Clusters, err : Nat, stopped : BOOLEAN]

Request == [call : {"none", "init", "list", "templates", "delete"}, id : Ids \cup {0},
            refresh : BOOLEAN, latest : BOOLEAN, at : {"none", "sent", "served", "failed"},
            ids : SUBSET Ids, clusters : SUBSET Clusters]

NoRequest == [call |-> "none", id |-> 0, refresh |-> FALSE, latest |-> FALSE, at |-> "none",
              ids |-> {}, clusters |-> {}]

Sel == Features[kind].selection
Poll == Features[kind].polling
List == Features[kind].listing
End == Features[kind].destruction

Keys == (1..Cardinality(Clusters)) \X Clusters
Asking == {s \in Slots : net[s].call = "templates"}

Of(call, id, refresh) ==
  [NoRequest EXCEPT !.call = call, !.id = id, !.refresh = refresh, !.at = "sent",
                    !.latest = call # "delete"]

(* The requests qs are sent, one per slot.  They are the latest that ask   *)
(* for templates, or for the tabs.                                         *)
SameKind(q, r) == q.call = "templates" <=> r.call = "templates"

Sent(n, qs) ==
  LET free == {s \in Slots : n[s].call = "none"}
      newer(s) == \E q \in qs : q.call # "delete" /\ SameKind(q, n[s])
  IN {[s \in Slots |->
         IF \E q \in qs : f[q] = s THEN CHOOSE q \in qs : f[q] = s
         ELSE IF newer(s) THEN [n[s] EXCEPT !.latest = FALSE] ELSE n[s]] :
        f \in {g \in [qs -> free] : \A q, r \in qs : q # r => g[q] # g[r]}}

(* retrieve(): nothing is sent without a selection.                        *)
Retrieve(id) == IF id = 0 THEN {} ELSE {Of("templates", id, FALSE)}

Asks(id) == asked' = IF id = 0 THEN asked ELSE id

(* initDefaultResourceId, redirectUri, getConfigMapId...: which tab to     *)
(* select.  The tabs are in the order that the users gave them.            *)
Chosen(id, ids) ==
  IF ids = {} THEN IF Sel.keeps THEN id ELSE 0
  ELSE IF id \in ids THEN id ELSE Min(ids)

(* syncStatus: one request per entry that has not failed too often.        *)
Due(es) == {i \in 1..Len(es) : es[i].err <= Poll.limit}
InFlight == MapThenSumSet(LAMBDA k : polls[k], Keys)
SyncStatus(es) ==
  \/ "poll" \notin load /\ UNCHANGED polls
  \/ /\ "poll" \in load
     /\ InFlight + Cardinality(Due(es)) <= MaxPolls
     /\ polls' = [k \in Keys |-> IF k[1] \in Due(es) /\ es[k[1]].cluster = k[2]
                                   THEN polls[k] + 1 ELSE polls[k]]

(* buildTplList: an entry per cluster, in their order, without errors.     *)
Ordinal(c, cs) == Cardinality({d \in cs : d <= c})
Entries(cs) ==
  [i \in 1..Cardinality(cs) |->
     [cluster |-> CHOOSE c \in cs : Ordinal(c, cs) = i, err |-> 0, stopped |-> FALSE]]

Acts(name) ==
  /\ name \in load
  /\ ~page.left
  /\ page.dialog = 0
  /\ acts < MaxActs
  /\ acts' = acts + 1

(***************************************************************************)
(* What the user does.                                                     *)
(***************************************************************************)
TabClick(r) ==
  /\ Acts("tab")
  /\ r \in page.ids
  /\ page' = [page EXCEPT !.id = r, !.route = IF Sel.navigates THEN r ELSE @]
  /\ net' \in Sent(net, Retrieve(r))
  /\ Asks(r)
  /\ UNCHANGED <<dialogVars, load, db, entries, polls, others, deleted, told, oldTabs, muddled>>

(* The list's first request for data, its paging and sorting.              *)
Refresh ==
  /\ Acts("refresh")
  /\ net' \in Sent(net, Retrieve(page.id))
  /\ Asks(page.id)
  /\ UNCHANGED <<dialogVars, load, db, page, entries, polls, others, deleted, told, oldTabs, muddled>>

OpenDelete ==
  /\ Acts("delete")
  /\ page.id # 0
  /\ List.warns => page.shown = {}
  /\ page' = [page EXCEPT !.dialog = page.id]
  /\ UNCHANGED <<dialogVars, load, db, entries, net, polls, others, history>>

(* Mutant of Confirm: the selection of the moment is deleted.              *)
ConfirmCurrent ==
  /\ page.dialog # 0
  /\ page' = [page EXCEPT !.dialog = 0]
  /\ IF page.left /\ End.drops
       THEN UNCHANGED net
       ELSE net' \in Sent(net, {Of("delete", page.id, FALSE)})
  /\ UNCHANGED <<dialogVars, load, db, entries, polls, acts, others, history>>

(* The dialog belongs to the whole portal: it may outlive the page.        *)
Confirm ==
  /\ page.dialog # 0
  /\ page' = [page EXCEPT !.dialog = 0]
  /\ IF page.left /\ End.drops
       THEN UNCHANGED net
       ELSE net' \in Sent(net, {Of("delete", page.dialog, FALSE)})
  /\ UNCHANGED <<dialogVars, load, db, entries, polls, acts, others, history>>

Cancel ==
  /\ page.dialog # 0
  /\ page' = [page EXCEPT !.dialog = 0]
  /\ UNCHANGED <<dialogVars, load, db, entries, net, polls, acts, others, history>>

(* Mutant of Restarted: the address is forgotten.                          *)
RestartedNowhere == [page EXCEPT !.route = 0]

(* initResource reads the address again.                                   *)
Restarted == [page EXCEPT !.id = page.route]

(* The dialog of the creation has its answer: a new resource r.            *)
Create(r) ==
  /\ Acts("create")
  /\ page.loaded
  /\ r \notin db \cup deleted
  /\ db' = db \cup {r}
  /\ IF Sel.create = "show"
       THEN /\ page' = [page EXCEPT !.id = r, !.route = IF Sel.navigates THEN r ELSE @]
            /\ net' \in Sent(net, {Of("list", 0, FALSE)} \cup Retrieve(r))
            /\ Asks(r)
       ELSE /\ page' = Restarted
            /\ net' \in Sent(net, {Of("init", 0, TRUE)})
            /\ UNCHANGED asked
  /\ UNCHANGED <<dialogVars, load, entries, polls, others, deleted, told, oldTabs, muddled>>

Leave ==
  /\ "leave" \in load
  /\ ~page.left
  /\ page' = [page EXCEPT !.left = TRUE]
  /\ UNCHANGED <<dialogVars, load, db, entries, net, polls, acts, others, history>>

(* The dialog of a listed template.                                        *)
Publish(cs) ==
  /\ Acts("publish")
  /\ page.of # 0
  /\ Submit("publish", page.of, cs)
  /\ UNCHANGED <<load, db, page, entries, net, polls, others, history>>

Offline(op, cs) ==
  /\ Acts("publish")
  /\ cs \subseteq page.shown
  /\ Submit(op, page.of, cs)
  /\ UNCHANGED <<load, db, page, entries, net, polls, others, history>>

(* The table changes behind the page's back: the list, and those on their  *)
(* way, are out of date.                                                   *)
Muddle ==
  /\ muddled' = TRUE
  /\ net' = [s \in Slots |-> IF net[s].at = "served" THEN [net[s] EXCEPT !.latest = FALSE]
                             ELSE net[s]]

(* Another user publishes, or takes offline.                               *)
Others(r, c) ==
  /\ "others" \in load
  /\ others < MaxOthers
  /\ others' = others + 1
  /\ online' = [online EXCEPT ![r] = IF c \in @ THEN @ \ {c} ELSE @ \cup {c}]
  /\ Muddle
  /\ UNCHANGED <<kind, calls, load, db, page, entries, polls, acts, asked, deleted, told, oldTabs>>

(***************************************************************************)
(* The server handles a request or fails, the answer of a deletion may be  *)
(* lost.                                                                   *)
(***************************************************************************)
Serve(s) ==
  LET q == net[s]
  IN /\ q.at = "sent"
     /\ \/ /\ q.call # "delete"
           /\ net' = [net EXCEPT ![s].at = "served",
                        ![s].ids = IF q.call = "templates" THEN {} ELSE db,
                        ![s].clusters = IF q.call = "templates" THEN online[q.id] ELSE {}]
           /\ UNCHANGED <<db, deleted>>
        \/ /\ q.call = "delete" /\ q.id \in db
           /\ db' = db \ {q.id}
           /\ deleted' = deleted \cup {q.id}
           /\ \E at \in {"served", "failed"} : net' = [net EXCEPT ![s].at = at]
        \/ net' = [net EXCEPT ![s].at = "failed"] /\ UNCHANGED <<db, deleted>>
     /\ UNCHANGED <<dialogVars, load, page, entries, polls, acts, others, asked, told, oldTabs, muddled>>

(* The dialog's own changes are followed by a retrieve, if their answer    *)
(* says that they succeeded and the dialog still waits for it.             *)
DialogServed(c) ==
  /\ Serves(c)
  /\ IF online' # online /\ calls'[c].at \notin {"served", "removed"}
       THEN Muddle ELSE UNCHANGED <<net, muddled>>
  /\ UNCHANGED <<load, db, page, entries, polls, acts, others, asked, deleted, told, oldTabs>>

(***************************************************************************)
(* The answers.                                                            *)
(***************************************************************************)
Free(s) == [net EXCEPT ![s] = NoRequest]

(* Mutant of InitAnswered: every page retrieves before it selects.         *)
InitAnsweredEarly(s) ==
  LET id == Chosen(page.id, net[s].ids)
      asks == IF net[s].refresh THEN page.id ELSE 0
  IN /\ net[s].call = "init"
     /\ net[s].at = "served"
     /\ page' = [page EXCEPT !.id = id, !.ids = net[s].ids, !.loaded = TRUE,
                             !.route = IF Sel.navigates /\ id # page.id THEN id ELSE @]
     /\ net' \in Sent(Free(s), Retrieve(asks))
     /\ Asks(asks)
     /\ oldTabs' = (oldTabs \/ ~net[s].latest)
     /\ UNCHANGED <<dialogVars, load, db, entries, polls, acts, others, deleted, told, muddled>>

(* The tabs, or the tabs and the templates.                                *)
InitAnswered(s) ==
  LET id == Chosen(page.id, net[s].ids)
      asks == IF net[s].refresh THEN IF Sel.early THEN page.id ELSE id ELSE 0
  IN /\ net[s].call = "init"
     /\ net[s].at = "served"
     /\ page' = [page EXCEPT !.id = id, !.ids = net[s].ids, !.loaded = TRUE,
                             !.route = IF Sel.navigates /\ id # page.id THEN id ELSE @]
     /\ net' \in Sent(Free(s), Retrieve(asks))
     /\ Asks(asks)
     /\ oldTabs' = (oldTabs \/ ~net[s].latest)
     /\ UNCHANGED <<dialogVars, load, db, entries, polls, acts, others, deleted, told, muddled>>

ListAnswered(s) ==
  /\ net[s].call = "list"
  /\ net[s].at = "served"
  /\ page' = [page EXCEPT !.ids = net[s].ids]
  /\ net' = Free(s)
  /\ oldTabs' = (oldTabs \/ ~net[s].latest)
  /\ UNCHANGED <<dialogVars, load, db, entries, polls, acts, others, asked, deleted, told, muddled>>

(* The templates and the publications arrive together, and the first       *)
(* status requests follow at once, unless the page was left.               *)
TemplatesAnswered(s) ==
  LET es == Entries(net[s].clusters)
  IN /\ net[s].call = "templates"
     /\ net[s].at = "served"
     /\ page' = [page EXCEPT !.of = net[s].id, !.shown = net[s].clusters]
     /\ entries' = es
     /\ IF page.left /\ List.looks THEN UNCHANGED polls ELSE SyncStatus(es)
     /\ muddled' = ~net[s].latest
     /\ net' = Free(s)
     /\ UNCHANGED <<dialogVars, load, db, acts, others, asked, deleted, told, oldTabs>>

(* Deleted: the page starts again, from its address.                       *)
DeleteAnswered(s) ==
  /\ net[s].call = "delete"
  /\ net[s].at = "served"
  /\ page' = Restarted
  /\ net' \in Sent(Free(s), {Of("init", 0, TRUE)})
  /\ UNCHANGED <<dialogVars, load, db, entries, polls, acts, others, history>>

Failed(s) ==
  /\ net[s].at = "failed"
  /\ net' = Free(s)
  /\ told' = TRUE
  /\ muddled' = (muddled \/ net[s].call = "templates")
  /\ UNCHANGED <<dialogVars, load, db, page, entries, polls, acts, others, asked, deleted, oldTabs>>

(* published: the list is retrieved, if the page is still there.           *)
Published(c) ==
  LET id == IF page.left THEN 0 ELSE page.id
  IN /\ Publishes(c)
     /\ net' \in Sent(net, Retrieve(id))
     /\ Asks(id)
     /\ UNCHANGED <<load, db, page, entries, polls, acts, others, deleted, told, oldTabs, muddled>>

DialogAnswered(c) ==
  /\ Goes(c)
  /\ UNCHANGED <<pageVars, history>>

(***************************************************************************)
(* The polling.                                                            *)
(***************************************************************************)
Tick ==
  /\ "poll" \in load
  /\ Poll.periodic
  /\ ~(page.left /\ End.stops)
  /\ Due(entries) # {}
  /\ SyncStatus(entries)
  /\ UNCHANGED <<dialogVars, load, db, page, entries, net, acts, others, history>>

(* What a status request is answered with: the state of the object, no     *)
(* content, for there is no such object, or an error.                      *)
PollAnswers == {"state", "nothing", "error"}

(* Answers name their entry by its index, which may by then be another's.  *)
PollAnswered(k, answer) ==
  LET i == k[1]
      es == IF i > Len(entries) \/ answer = "nothing" THEN entries
            ELSE IF answer = "state"
              THEN IF Poll.clears THEN [entries EXCEPT ![i].err = 0] ELSE entries
              ELSE [entries EXCEPT ![i].err = @ + 1,
                                   ![i].stopped = @ \/ entries[i].err + 1 = Poll.stop]
  IN /\ polls[k] > 0
     /\ polls' = [polls EXCEPT ![k] = @ - 1]
     /\ entries' = es
     /\ UNCHANGED <<dialogVars, load, db, page, net, acts, others, history>>

Init ==
  /\ DialogInit
  /\ load \in Workloads
  /\ db \in SUBSET Ids
  /\ \A r \in Ids \ db : online[r] = {}
  /\ \E r \in db :
       page = [id |-> r, route |-> r, ids |-> {}, loaded |-> FALSE, of |-> 0, shown |-> {},
               dialog |-> 0, left |-> FALSE]
  /\ entries = <<>>
  /\ net \in Sent([s \in Slots |-> NoRequest], {Of("init", 0, FALSE)})
  /\ polls = [k \in Keys |-> 0]
  /\ acts = 0
  /\ others = 0
  /\ asked = 0
  /\ deleted = {}
  /\ told = FALSE
  /\ oldTabs = FALSE
  /\ muddled = FALSE

Next ==
  \/ \E r \in Ids : TabClick(r) \/ Create(r) \/ \E c \in Clusters : Others(r, c)
  \/ Refresh \/ OpenDelete \/ Confirm \/ Cancel \/ Leave \/ Tick
  \/ \E cs \in SUBSET Clusters : Publish(cs) \/ \E op \in {"offline", "force"} : Offline(op, cs)
  \/ \E s \in Slots : \/ Serve(s) \/ InitAnswered(s) \/ ListAnswered(s)
                      \/ TemplatesAnswered(s) \/ DeleteAnswered(s) \/ Failed(s)
  \/ \E c \in Clusters : DialogServed(c) \/ Published(c) \/ DialogAnswered(c)
  \/ \E k \in Keys, answer \in PollAnswers : PollAnswered(k, answer)

Spec == Init /\ [][Next]_vars

(***************************************************************************)
(* Properties                                                              *)
(***************************************************************************)

(* Every variable has its type.                                            *)
TypeOK ==
  /\ DialogTypeOK
  /\ load \in Workloads
  /\ db \subseteq Ids
  /\ page \in Page
  /\ entries \in Seq(Entry)
  /\ net \in [Slots -> Request]
  /\ polls \in [Keys -> Nat]
  /\ acts \in 0..MaxActs
  /\ others \in 0..MaxOthers
  /\ asked \in Ids \cup {0}
  /\ deleted \subseteq Ids
  /\ told \in BOOLEAN
  /\ oldTabs \in BOOLEAN
  /\ muddled \in BOOLEAN

Deletions == {s \in Slots : net[s].call = "delete"}

(* A page that was left asks for no status and deletes nothing, although   *)
(* the answers of its requests still arrive and the deletion dialog may    *)
(* still be open.  (autoscale keeps its subscription.)                     *)
LeftPageIsSilent ==
  [][page.left /\ kind # "autoscale" =>
       /\ \A k \in Keys : polls'[k] <= polls[k]
       /\ \A s \in Slots : net'[s].call = "delete" => net[s].call = "delete"]_vars

(* What is deleted is what was selected when the user was asked, although  *)
(* an answer may have changed the selection since.                         *)
DeletesWhatWasAsked ==
  [][\A s \in Slots :
       net'[s].call = "delete" /\ net[s].call # "delete" => net'[s].id = page.dialog]_vars

Starting == \E s \in Slots : net[s].call = "init"

(* The page leaves a resource that it deleted, unless nothing is left to   *)
(* select, the user was told of a failure, or an old list of the tabs came *)
(* late; and the templates last asked for are those of the selected        *)
(* resource, unless the page is starting again, or waits for a deletion.   *)
(* (Not where the list's answer retrieves before it selects: there a       *)
(* deletion leaves the deleted resource's templates under the next tab.)   *)
SelectionIsAsked ==
  ~told /\ ~Starting /\ Deletions = {} /\ ~oldTabs =>
    /\ page.id \in deleted => page.ids = {}
    /\ ~Sel.early /\ asked # 0 /\ page.id # 0 => asked = page.id

Quiet == (\A s \in Slots : net[s].call = "none") /\ (\A c \in Clusters : Idle(c))

(* When every answer has come, the page shows the clusters where the       *)
(* resource is published, after any sequence of publishes and removals of  *)
(* its user, unless answers overtook each other, or a failure or another   *)
(* user made the list old.  (Not for a resource that the page has deleted: *)
(* its address may select it again, and nothing is retrieved until then.)  *)
ShownIsTrue ==
  /\ Quiet /\ ~page.left /\ ~muddled /\ ~oldTabs
  /\ page.of # 0 /\ page.of = page.id /\ page.of \notin deleted
  => page.shown = online[page.of]
===============================================================================
