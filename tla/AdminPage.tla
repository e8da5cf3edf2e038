------------------------------ MODULE AdminPage ------------------------------
(***************************************************************************)
(* One user at the pages of one kind of row: the list, with its dialog,    *)
(* and the trash, where there is one.  A page is destroyed when it is left and     *)
(* built anew when it is entered, but its requests go on, their callbacks  *)
(* still run, and a confirmation box stays open: it belongs to the console *)
(* as a whole and tells everybody what was confirmed.                      *)
(*                                                                         *)
(* Answers come in any order.                                              *)
(***************************************************************************)
EXTENDS AdminKinds, Naturals, FiniteSets

CONSTANTS Cases,      \* the kinds of row, each with actions to look at together
          Ids,        \* the rows
          Slots,      \* bound: the requests under way
          MaxActs     \* bound: what the user does on a page

Actions == {"refresh", "dialog", "delete", "rewrite", "leave"}

ASSUME AdminAssumption ==
  /\ Cases \subseteq AdminKinds \X SUBSET Actions
  /\ 0 \notin Ids
  /\ IsFiniteSet(Slots)
  /\ MaxActs \in Nat

VARIABLES kind, load,  \* the kind of row, the actions taken
          rows,        \* the table
          view,        \* the page that is shown
          shown,       \* the rows that it lists
          heard,       \* the pages that listen to the box
          box,         \* the confirmation box
          names,       \* the list of owners that the dialog has asked for
          form,        \* the dialog
          net,         \* per slot: the request under way
          acts,        \* bounded steps so far
          failed,      \* history variable: a request has failed
          muddled      \* history variable: the list answered last may be out of
                       \* date: a later one was overtaken, or the table has
                       \* changed by a request of a page that was left

vars == <<kind, load, rows, view, shown, heard, box, names, form, net, acts, failed, muddled>>

Views == {"list", "trash"}
RowStates == {"none", "live", "trashed", "gone"}
Exist == {"live", "trashed"}

Ask(v) == IF v = "list" THEN Pages[kind] ELSE Trashes[kind]
Targets == {Pages[k].asks : k \in AdminKinds} \cup {Trashes[k].asks : k \in DOMAIN Trashes}

(* from: the page that asks, "elsewhere" for one of another kind of row.   *)
Box == [target : Targets, id : Ids, from : Views \cup {"elsewhere"}]
NoBox == [target |-> "", id |-> 0, from |-> ""]

(* id: the resource in the dialog, 0 for a new one; wanted: the one it was *)
(* opened for; as: what it says of deleted; by: the opening whose read has *)
(* filled it; stuck: onSubmit has thrown or returned with the flag busy    *)
(* (isSubmitOnGoing) set.                                                  *)
Form == [open : BOOLEAN, edit : BOOLEAN, id : Ids \cup {0}, wanted : Ids \cup {0}, as : Exist,
         by : {"nobody", "this", "earlier"}, busy : BOOLEAN, stuck : BOOLEAN]
NewForm == [open |-> FALSE, edit |-> FALSE, id |-> 0, wanted |-> 0, as |-> "live",
            by |-> "nobody", busy |-> FALSE, stuck |-> FALSE]

(* as: what is read or written of deleted.  mine: the page, or its dialog, *)
(* is still there.  latest: no later list was asked for, or the dialog was *)
(* not opened again.                                                       *)
Saves == {"create", "update"}
Request == [call : {"list", "read", "delete", "rewrite"} \cup Saves, id : Ids \cup {0},
            permanent : BOOLEAN, as : Exist \cup {"kept"}, at : {"sent", "served", "failed"},
            mine : BOOLEAN, latest : BOOLEAN, ids : SUBSET Ids]
NoRequest == [call |-> "none", id |-> 0, permanent |-> FALSE, as |-> "live", at |-> "sent",
              mine |-> FALSE, latest |-> FALSE, ids |-> {}]

Of(call, id) == [call |-> call, id |-> id, permanent |-> FALSE, as |-> "live",
                 at |-> "sent", mine |-> TRUE, latest |-> TRUE, ids |-> {}]
List == Of("list", 0)
Free(s) == [net EXCEPT ![s] = NoRequest]

(* The requests qs are sent, one per slot.                                 *)
Sent(n, qs) ==
  LET free == {s \in Slots : n[s].call = "none"}
      overtaken == {q.call : q \in qs} \cap {"list", "read"}
  IN {[s \in Slots |->
         IF \E q \in qs : f[q] = s THEN CHOOSE q \in qs : f[q] = s
         ELSE IF n[s].call \in overtaken THEN [n[s] EXCEPT !.latest = FALSE] ELSE n[s]] :
        f \in {g \in [qs -> free] : \A q, r \in qs : q # r => g[q] # g[r]}}

(* The answer to the list of the page v.                                   *)
Listed(v) ==
  LET lists == Clients[kind].lists
      states == IF lists = "all" THEN Exist
                ELSE IF lists = "asked" /\ v = "trash" THEN {"trashed"} ELSE {"live"}
  IN {i \in Ids : rows[i] \in states}

(* Whether a deletion that the page v sends is permanent.                  *)
Permanent(v) ==
  CASE Clients[kind].deletes = "asked" -> v = "trash"
    [] Clients[kind].deletes = "logical" -> FALSE
    [] Clients[kind].deletes = "permanent" -> TRUE

Acts(name) ==
  /\ name \in load
  /\ ~form.open
  /\ box = NoBox
  /\ acts < MaxActs
  /\ acts' = acts + 1

Init ==
  /\ \E c \in Cases : kind = c[1] /\ load = c[2]
  /\ rows \in [Ids -> {"none", "live"} \cup IF Permanent("list") THEN {} ELSE {"trashed"}]
  /\ view = "list"
  /\ shown = {}
  /\ heard = {"list"}
  /\ box = NoBox
  /\ names = "asked"
  /\ form = NewForm
  /\ net \in Sent([s \in Slots |-> NoRequest], {List})
  /\ acts = 0
  /\ failed = FALSE
  /\ muddled = FALSE

(***************************************************************************)
(* What the user does.                                                     *)
(***************************************************************************)
Refresh ==
  /\ Acts("refresh")
  /\ net' \in Sent(net, {List})
  /\ UNCHANGED <<kind, load, rows, view, shown, heard, box, names, form, failed, muddled>>

(* Mutant of OpenNew: the resource that was edited last is left in it.     *)
OpenNewDirty ==
  /\ Acts("dialog")
  /\ view = "list"
  /\ form' = [form EXCEPT !.open = TRUE, !.edit = FALSE, !.wanted = 0, !.by = "this"]
  /\ net' = [s \in Slots |-> IF net[s].call = "read" THEN [net[s] EXCEPT !.latest = FALSE]
                             ELSE net[s]]
  /\ UNCHANGED <<kind, load, rows, view, shown, heard, box, names, failed, muddled>>

(* newOrEdit without an id: nothing is read.  The resource is emptied, if  *)
(* the dialog does that.                                                   *)
OpenNew ==
  /\ Acts("dialog")
  /\ view = "list"
  /\ form' = LET clear == Dialogs[kind].fresh \/ form.id = 0
             IN [form EXCEPT !.open = TRUE, !.edit = FALSE, !.wanted = 0,
                             !.id = IF clear THEN 0 ELSE @,
                             !.as = IF clear THEN "live" ELSE @,
                             !.by = IF clear THEN "this" ELSE "earlier"]
  /\ net' = [s \in Slots |-> IF net[s].call = "read" THEN [net[s] EXCEPT !.latest = FALSE]
                             ELSE net[s]]
  /\ UNCHANGED <<kind, load, rows, view, shown, heard, box, names, failed, muddled>>

(* ... with one: the resource that was in the dialog stays until the read  *)
(* is answered.                                                            *)
OpenEdit(i) ==
  /\ Acts("dialog")
  /\ view = "list"
  /\ i \in shown
  /\ RowsOf[kind].edits
  /\ form' = [form EXCEPT !.open = ~Dialogs[kind].waits, !.edit = TRUE, !.wanted = i, !.by = "nobody"]
  /\ net' \in Sent(net, {Of("read", i)})
  /\ UNCHANGED <<kind, load, rows, view, shown, heard, box, names, failed, muddled>>

(* onCancel, or the cross of the dialog.                                   *)
Close ==
  /\ form.open
  /\ form' = [form EXCEPT !.open = FALSE]
  /\ UNCHANGED <<kind, load, rows, view, shown, heard, box, names, net, acts, failed, muddled>>

(* onSubmit, while no other is under way.                                  *)
Submits == form.open /\ ~form.busy

Mode ==
  LET edit == IF Dialogs[kind].byId THEN form.id # 0 ELSE form.edit
  IN IF edit THEN "edit" ELSE "new"
Saving(mode) == IF mode = "edit" THEN "update" ELSE "create"
Nameless == Mode \in Dialogs[kind].names /\ names # "have"

Submit ==
  /\ Submits
  /\ ~Nameless
  /\ form' = [form EXCEPT !.busy = TRUE]
  /\ net' \in Sent(net, {[Of(Saving(Mode), form.id) EXCEPT !.as = form.as]})
  /\ UNCHANGED <<kind, load, rows, view, shown, heard, box, names, acts, failed, muddled>>

Stuck == form' = [form EXCEPT !.busy = TRUE, !.stuck = TRUE]

(* Mutant of SubmitInvalid: the dialog is not released.                    *)
SubmitInvalidBusy ==
  /\ Submits
  /\ \/ Dialogs[kind].invalid = "refused" /\ form' = [form EXCEPT !.busy = TRUE]
     \/ Dialogs[kind].invalid = "throws" /\ Stuck
     \/ Dialogs[kind].invalid = "unknown" /\ Mode = "new" /\ ~Nameless /\ Stuck
  /\ UNCHANGED <<kind, load, rows, view, shown, heard, box, names, net, acts, failed, muddled>>

(* The text of the editor is no JSON, no event is chosen, or nobody has    *)
(* the name.                                                               *)
SubmitInvalid ==
  /\ Submits
  /\ \/ Dialogs[kind].invalid = "refused" /\ UNCHANGED form
     \/ Dialogs[kind].invalid = "throws" /\ Stuck
     \/ Dialogs[kind].invalid = "unknown" /\ Mode = "new" /\ ~Nameless /\ Stuck
  /\ UNCHANGED <<kind, load, rows, view, shown, heard, box, names, net, acts, failed, muddled>>

(* The list of names has not come, or will not.                            *)
SubmitNameless ==
  /\ Submits
  /\ Nameless
  /\ Stuck
  /\ UNCHANGED <<kind, load, rows, view, shown, heard, box, names, net, acts, failed, muddled>>

AskDelete(i) ==
  /\ Acts("delete")
  /\ i \in shown
  /\ box' = [target |-> Ask(view).asks, id |-> i, from |-> view]
  /\ UNCHANGED <<kind, load, rows, view, shown, heard, names, form, net, failed, muddled>>

(* Everybody that hears the target deletes.                                *)
Confirm ==
  /\ box # NoBox
  /\ box' = NoBox
  /\ net' \in Sent(net, {[Of("delete", box.id) EXCEPT !.permanent = Permanent(v), !.mine = v = view] :
                           v \in {w \in heard : Ask(w).hears = box.target}})
  /\ UNCHANGED <<kind, load, rows, view, shown, heard, names, form, acts, failed, muddled>>

Decline ==
  /\ box # NoBox
  /\ box' = NoBox
  /\ UNCHANGED <<kind, load, rows, view, shown, heard, names, form, net, acts, failed, muddled>>

(* The trash writes a row back as it was listed, but not deleted.  A       *)
(* switch in the list leaves deleted alone.                                *)
Rewrite(i) ==
  /\ Acts("rewrite")
  /\ view = "list" => RowsOf[kind].flips # "never"
  /\ i \in shown
  /\ net' \in Sent(net, {[Of("rewrite", i) EXCEPT !.as = IF view = "list" THEN "kept" ELSE "live"]})
  /\ UNCHANGED <<kind, load, rows, view, shown, heard, box, names, form, failed, muddled>>

(* A page is left, maybe for one of another kind of row whose box is still *)
(* open on return.                                                         *)
AskedBy == [t \in Targets |-> {k \in AdminKinds : Pages[k].asks = t} \cup
                              {k \in DOMAIN Trashes : Trashes[k].asks = t}]
Elsewhere(v) ==
  IF AskedBy[Ask(v).hears] \subseteq {kind} THEN {}
  ELSE [target : {Ask(v).hears}, id : Ids, from : {"elsewhere"}]

Left == [s \in Slots |-> [net[s] EXCEPT !.mine = FALSE, !.latest = FALSE]]

(* Mutant of Enter: every kind is taken to have a trash.                   *)
EnterAny(v) ==
  /\ "leave" \in load
  /\ acts < MaxActs
  /\ acts' = acts + 1
  /\ view' = v
  /\ shown' = {}
  /\ heard' = {v}
  /\ names' = "asked"
  /\ form' = NewForm
  /\ net' \in Sent(Left, {List})
  /\ muddled' = FALSE
  /\ UNCHANGED <<kind, load, rows, box, failed>>

(* Mutant of Enter: ngOnDestroy forgets the subscription.                  *)
EnterHeard(v) ==
  /\ "leave" \in load
  /\ acts < MaxActs
  /\ acts' = acts + 1
  /\ v = "trash" => HasTrash(kind)
  /\ view' = v
  /\ shown' = {}
  /\ heard' = heard \cup {v}
  /\ box' \in {box} \cup IF box = NoBox THEN Elsewhere(v) ELSE {}
  /\ names' = "asked"
  /\ form' = NewForm
  /\ net' \in Sent(Left, {List})
  /\ muddled' = FALSE
  /\ UNCHANGED <<kind, load, rows, failed>>

Enter(v) ==
  /\ "leave" \in load
  /\ acts < MaxActs
  /\ acts' = acts + 1
  /\ v = "trash" => HasTrash(kind)
  /\ view' = v
  /\ shown' = {}
  /\ heard' = {v} \cup {w \in heard : ~Ask(w).drops}
  /\ box' \in {box} \cup IF box = NoBox THEN Elsewhere(v) ELSE {}
  /\ names' = "asked"
  /\ form' = NewForm
  /\ net' \in Sent(Left, {List})
  /\ muddled' = FALSE
  /\ UNCHANGED <<kind, load, rows, failed>>

(***************************************************************************)
(* The server.                                                             *)
(***************************************************************************)
(* A change reaches the table: lists that are under way do not show it,    *)
(* and the page that is shown will not ask again if it did not make it.    *)
Changed(s, at) ==
  /\ net' = [t \in Slots |->
               IF t = s THEN [net[t] EXCEPT !.at = at]
               ELSE IF net[t].call = "list" /\ net[t].at = "served"
                      THEN [net[t] EXCEPT !.latest = FALSE]
               ELSE net[t]]
  /\ muddled' = (muddled \/ ~net[s].mine)

Row(i, to) == rows' = [rows EXCEPT ![i] = to]

Deletes(q) ==
  /\ q.call = "delete"
  /\ rows[q.id] \in Exist
  /\ Row(q.id, IF q.permanent THEN "gone" ELSE "trashed")

(* The whole row is written, with what the request says of deleted.        *)
Writes(q) ==
  /\ q.call \in {"update", "rewrite"}
  /\ q.id # 0
  /\ rows[q.id] \in Exist \/ Clients[kind].upserts
  /\ Row(q.id, IF q.as = "kept" THEN rows[q.id] ELSE q.as)

(* Insert with an id of its own, or with the one that was left in the      *)
(* resource, which may be taken.  A membership goes to the user named.     *)
Creates(q) ==
  /\ q.call = "create"
  /\ \E i \in Ids :
       /\ \/ Clients[kind].upserts
          \/ q.id = 0 /\ rows[i] = "none"
          \/ q.id = i /\ rows[i] = "gone"
       /\ Row(i, "live")

(* The answer of a request that has changed the table may be lost.         *)
ServeChange(s) ==
  /\ net[s].at = "sent"
  /\ Deletes(net[s]) \/ Writes(net[s]) \/ Creates(net[s])
  /\ \E at \in {"served", "failed"} : Changed(s, at)
  /\ UNCHANGED <<kind, load, view, shown, heard, box, names, form, acts, failed>>

ServeRead(s) ==
  /\ net[s].call \in {"list", "read"}
  /\ net[s].at = "sent"
  /\ net[s].call = "read" => rows[net[s].id] \in Exist
  /\ net' = [net EXCEPT ![s].at = "served",
                        ![s].as = IF net[s].call = "read" THEN rows[net[s].id] ELSE @,
                        ![s].ids = IF net[s].call = "list" THEN Listed(view) ELSE {}]
  /\ UNCHANGED <<kind, load, rows, view, shown, heard, box, names, form, acts, failed, muddled>>

Refuse(s) ==
  /\ net[s].call # "none"
  /\ net[s].at = "sent"
  /\ net' = [net EXCEPT ![s].at = "failed"]
  /\ UNCHANGED <<kind, load, rows, view, shown, heard, box, names, form, acts, failed, muddled>>

(***************************************************************************)
(* The answers.                                                            *)
(***************************************************************************)
(* A callback of a page that was left: nothing of it is seen.              *)
Ignored(s) ==
  /\ net[s].call # "none"
  /\ net[s].at # "sent"
  /\ ~net[s].mine
  /\ net' = Free(s)
  /\ UNCHANGED <<kind, load, rows, view, shown, heard, box, names, form, acts, failed, muddled>>

Answers(s, call) == net[s].call = call /\ net[s].at = "served" /\ net[s].mine

NamesAnswered ==
  /\ Dialogs[kind].names # {}
  /\ names = "asked"
  /\ names' \in {"have", "failed"}
  /\ UNCHANGED <<kind, load, rows, view, shown, heard, box, form, net, acts, failed, muddled>>

ListAnswered(s) ==
  /\ Answers(s, "list")
  /\ shown' = net[s].ids
  /\ muddled' = ~net[s].latest
  /\ net' = Free(s)
  /\ UNCHANGED <<kind, load, rows, view, heard, box, names, form, acts, failed>>

(* The read of a dialog, which may have been closed and opened again.      *)
ReadAnswered(s) ==
  /\ Answers(s, "read")
  /\ form' = [form EXCEPT !.open = @ \/ Dialogs[kind].waits, !.id = net[s].id, !.as = net[s].as,
                         !.by = IF net[s].latest THEN "this" ELSE "earlier"]
  /\ net' = Free(s)
  /\ UNCHANGED <<kind, load, rows, view, shown, heard, box, names, acts, failed, muddled>>

(* Mutant of SaveAnswered: create is not emitted.                          *)
SaveAnsweredSilent(s) ==
  /\ \E call \in Saves : Answers(s, call)
  /\ form' = [form EXCEPT !.busy = FALSE, !.open = FALSE]
  /\ net' = Free(s)
  /\ UNCHANGED <<kind, load, rows, view, shown, heard, box, names, acts, failed, muddled>>

(* The dialog is released and closed, though it may have been opened again *)
(* since; the page retrieves.                                              *)
SaveAnswered(s) ==
  /\ \E call \in Saves : Answers(s, call)
  /\ form' = [form EXCEPT !.busy = FALSE, !.open = FALSE]
  /\ net' \in Sent(Free(s), {List})
  /\ UNCHANGED <<kind, load, rows, view, shown, heard, box, names, acts, failed, muddled>>

ChangeAnswered(s) ==
  /\ Answers(s, "delete") \/ Answers(s, "rewrite")
  /\ LET silent == net[s].call = "rewrite" /\ view = "list" /\ RowsOf[kind].flips = "silent"
     IN net' \in Sent(Free(s), IF silent THEN {} ELSE {List})
  /\ UNCHANGED <<kind, load, rows, view, shown, heard, box, names, form, acts, failed, muddled>>

(* An error is shown; that of a save releases and closes the dialog too.   *)
Failed(s) ==
  /\ net[s].call # "none"
  /\ net[s].at = "failed"
  /\ net[s].mine
  /\ form' = IF net[s].call \in Saves THEN [form EXCEPT !.busy = FALSE, !.open = FALSE] ELSE form
  /\ failed' = TRUE
  /\ net' = Free(s)
  /\ UNCHANGED <<kind, load, rows, view, shown, heard, box, names, acts, muddled>>

Next ==
  \/ Refresh \/ OpenNew \/ Close \/ Submit \/ SubmitInvalid \/ SubmitNameless
  \/ Confirm \/ Decline \/ NamesAnswered
  \/ \E i \in Ids : OpenEdit(i) \/ AskDelete(i) \/ Rewrite(i)
  \/ \E v \in Views : Enter(v)
  \/ \E s \in Slots : \/ ServeChange(s) \/ ServeRead(s) \/ Refuse(s)
                      \/ Ignored(s) \/ ListAnswered(s) \/ ReadAnswered(s)
                      \/ SaveAnswered(s) \/ ChangeAnswered(s) \/ Failed(s)

Spec == Init /\ [][Next]_vars

(***************************************************************************)
(* What is expected of the pages.                                          *)
(***************************************************************************)
(* Every variable has its type.                                            *)
TypeOK ==
  /\ <<kind, load>> \in Cases
  /\ rows \in [Ids -> RowStates]
  /\ view \in Views /\ (view = "trash" => HasTrash(kind))
  /\ shown \subseteq Ids
  /\ heard \subseteq Views /\ ("trash" \in heard => HasTrash(kind))
  /\ box \in Box \cup {NoBox}
  /\ names \in {"asked", "have", "failed"}
  /\ form \in Form
  /\ net \in [Slots -> Request \cup {NoRequest}]
  /\ acts \in 0..MaxActs
  /\ failed \in BOOLEAN /\ muddled \in BOOLEAN

SavesUnderWay == {s \in Slots : net[s].call \in Saves /\ net[s].mine}

(* The dialog is never stuck: isSubmitOnGoing is set only while exactly    *)
(* one save is under way, whatever was closed, opened again or refused in  *)
(* between, unless onSubmit has thrown or met a name of nobody.            *)
DialogRecovers ==
  /\ form.busy /\ ~form.stuck => \E s \in Slots : SavesUnderWay = {s}
  /\ ~form.busy => SavesUnderWay = {}

(* What the pages are for: a list shows the live rows, that of the API     *)
(* keys the disabled ones too; the trash shows the deleted ones.           *)
Expected ==
  {i \in Ids : \/ rows[i] = "live" /\ view = "list"
               \/ rows[i] = "trashed" /\ (view = "trash" \/ kind = "apikey")}

(* When every answer has come, and none was an error, the page lists what  *)
(* the table holds for it, unless an overtaken list came last.             *)
Quiet == \A s \in Slots : net[s].call = "none"
ListIsTrue == Quiet /\ ~failed /\ ~muddled => shown = Expected

(* The targets that more than one page asks with or listens to: autoscale  *)
(* and autoscaletpl with their trashes, config with customlink and         *)
(* roadmap, the trashes of daemonset and daemonsettpl, ingresstpl, which   *)
(* listens to servicetpl instead of itself, the two pages of webhooks, and *)
(* the pages of the portal for apps and API keys with those of the         *)
(* administration.                                                         *)
SharedTargets == {"WEBHOOK", "APP", "API_KEY", "AUTOSCALE", "AUTOSCALE_TPL", "CONFIG", "TRASH_DAEMONSET_TPL",
                  "SERVICE_TPL", "INGRESS_TPL"}

Deletions(n) == {s \in Slots : n[s].call = "delete" /\ n[s].at = "sent"}

(* A confirmation is heard by the page that asked, if it is still shown,   *)
(* and by nobody else: one deletion is sent, of the row that the box       *)
(* named, for good only if the trash had asked, where there is one.  It is *)
(* sent if the page is still there and the box was not declined.           *)
DeletesAsAsked ==
  [][/\ box # NoBox /\ box' = NoBox /\ box.target \notin SharedTargets =>
          \A s \in Deletions(net') \ Deletions(net) :
            /\ net'[s].id = box.id
            /\ box.from = view
            /\ HasTrash(kind) => (net'[s].permanent <=> box.from = "trash")
     /\ Confirm /\ box.from = view /\ box.target \notin SharedTargets =>
          Cardinality(Deletions(net')) = Cardinality(Deletions(net)) + 1]_vars

(* A dialog that was filled by its own opening updates the row that it was *)
(* opened for, or creates one, whatever it was opened for before.          *)
SavesWhatWasOpened ==
  [][\A s \in Slots :
       net'[s].call \in Saves /\ net[s].call \notin Saves /\ form.by = "this" =>
         /\ net'[s].id = form.wanted
         /\ net'[s].call = "create" <=> form.wanted = 0]_vars
==============================================================================
