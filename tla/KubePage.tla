------------------------------- MODULE KubePage ------------------------------
(***************************************************************************)
(* One administrator at the page of one kind of object.  The page shows    *)
(* the objects of one cluster at a time; every request names the cluster   *)
(* that is chosen when it is sent, and its answer is taken whatever is     *)
(* chosen by then.  The clusters change by other hands too, and the        *)
(* server's caches of them lag behind.                                     *)
(*                                                                         *)
(* In each cluster there is one name in one namespace, for an object that  *)
(* comes and goes: the objects of different clusters share their names.    *)
(* An object that is gone keeps its count of incarnations, uid.            *)
(***************************************************************************)
EXTENDS KubeKinds, Naturals, SequencesExt

CONSTANTS Kinds,     \* the kinds of object that are looked at
          Workloads, \* the sets of actions to look at together
          Clusters,
          MaxNet,    \* bound: the requests under way
          MaxActs    \* bound: what the administrator does, and others

Actions == {"refresh", "switch", "scope", "delete", "edit", "create", "migrate", "others"}

NoCluster == "none"

ASSUME KubeAssumption ==
  /\ Kinds \subseteq KubeKinds
  /\ Workloads \subseteq SUBSET Actions
  /\ NoCluster \notin Clusters
  /\ MaxNet \in Nat
  /\ MaxActs \in Nat

VARIABLES kind, load, \* the kind of object, the workload
          objects,    \* per cluster: the object
          cached,     \* per cluster: what the server's cache says of it
          chosen,     \* the cluster that is chosen
          memory,     \* what the browser remembers of former visits
          scope,      \* the namespace that is chosen
          shown,      \* the rows of the list
          box,        \* the row that the deletion dialog asks about
          editor,     \* the editor
          dialog,     \* the migration dialog
          made,       \* what migrations have created, in the database
          net,        \* the requests under way, in the order of their sending
          acts,       \* bounded steps so far
          failed,     \* history variable: a request has failed
          muddled,    \* history variable: the list answered last was overtaken,
                      \* or may be out of date
          strayed,    \* history variable: a text was saved in a cluster it was
                      \* not read from
          hurried     \* history variable: a migration was begun, or submitted,
                      \* before the answers to the last one had come

vars == <<kind, load, objects, cached, chosen, memory, scope, shown, box, editor, dialog,
          made, net, acts, failed, muddled, strayed, hurried>>
history == <<failed, muddled, strayed, hurried>>
page == <<chosen, memory, scope, shown, box, editor, dialog>>
world == <<objects, cached, made>>

(* rev: the resourceVersion, in a text 0 for none; text: the object whose  *)
(* spec it has; rest: how often the other fields have been changed.        *)
Object(c, uid) ==
  [cluster |-> c, uid |-> uid, there |-> TRUE, rev |-> 1, text |-> <<c, uid>>, rest |-> 1]
Nothing == [Object(NoCluster, 0) EXCEPT !.there = FALSE]

(* obj: what is sent with the request, and then what is answered.  n: the  *)
(* entry of made that a template is for.  latest: no list was asked for    *)
(* since, or, for a save, the form that has sent it was not left.          *)
Ask(call, c, obj) ==
  [call |-> call, cluster |-> c, scope |-> scope, obj |-> obj, n |-> 0,
   at |-> "sent", latest |-> TRUE]

Gets == {"read", "reread", "copy"}
Calls == {"clusters", "names", "list", "create", "update", "delete", "resource", "template"}
           \cup Gets

Sends(n, q) ==
  /\ Len(n) < MaxNet
  /\ net' = Append([i \in DOMAIN n |->
                      IF q.call = "list" /\ n[i].call = "list"
                        THEN [n[i] EXCEPT !.latest = FALSE] ELSE n[i]], q)

(* busy: the form of persistent volumes waits for its save.                *)
NoEditor == [mode |-> "closed", obj |-> Nothing, busy |-> FALSE]
NewDialog == [open |-> FALSE, app |-> FALSE, busy |-> FALSE, obj |-> Nothing]

Idle == box = Nothing /\ editor.mode = "closed" /\ ~dialog.open

Acts(name) ==
  /\ name \in load
  /\ acts < MaxActs
  /\ acts' = acts + 1

Init ==
  /\ kind \in Kinds
  /\ load \in Workloads
  /\ \E there \in SUBSET Clusters :
       objects = [c \in Clusters |-> IF c \in there THEN Object(c, 1) ELSE Nothing]
  /\ cached = objects
  /\ chosen = NoCluster
  /\ memory \in [cluster : Clusters \cup {NoCluster},
                 scope : IF Pages[kind].scoped THEN {"all", "other"} ELSE {"all"}]
  /\ scope = "all"
  /\ shown = {}
  /\ box = Nothing
  /\ editor = NoEditor
  /\ dialog = NewDialog
  /\ made = <<>>
  /\ net = <<Ask("clusters", NoCluster, Nothing)>>
  /\ acts = 0
  /\ failed = FALSE
  /\ muddled = FALSE
  /\ strayed = FALSE
  /\ hurried = FALSE

(***************************************************************************)
(* The list.                                                               *)
(***************************************************************************)
(* Mutant of Retrieves: without asking whether there is a cluster.         *)
RetrievesAnywhere(n, m, c, s) ==
  /\ Sends(n, [Ask("list", c, Nothing) EXCEPT !.scope = s])
  /\ memory' = [m EXCEPT !.scope = IF Pages[kind].scoped THEN s ELSE @]

(* retrieveResource, of the cluster c in the namespace s; n and m are the  *)
(* requests and the memory before it.                                      *)
Retrieves(n, m, c, s) ==
  IF c = NoCluster
    THEN net' = n /\ memory' = m
    ELSE /\ Sends(n, [Ask("list", c, Nothing) EXCEPT !.scope = s])
         /\ memory' = [m EXCEPT !.scope = IF Pages[kind].scoped THEN s ELSE @]

(* jumpToHref.                                                             *)
Jumps(n, c) ==
  /\ chosen' = c
  /\ LET m == [memory EXCEPT !.cluster = c]
     IN IF Pages[kind].scoped
          THEN Sends(n, Ask("names", c, Nothing)) /\ memory' = m
          ELSE Retrieves(n, m, c, scope)

Refresh ==
  /\ Acts("refresh")
  /\ Idle
  /\ Retrieves(net, memory, chosen, scope)
  /\ UNCHANGED <<kind, load, world, chosen, scope, shown, box, editor, dialog, history>>

Switch(c) ==
  /\ Acts("switch")
  /\ Idle
  /\ chosen # NoCluster
  /\ Jumps(net, c)
  /\ UNCHANGED <<kind, load, world, scope, shown, box, editor, dialog, history>>

Scope(s) ==
  /\ Acts("scope")
  /\ Idle
  /\ Pages[kind].scoped
  /\ chosen # NoCluster
  /\ scope' = s
  /\ Retrieves(net, memory, chosen, s)
  /\ UNCHANGED <<kind, load, world, chosen, shown, box, editor, dialog, history>>

(***************************************************************************)
(* Deleting, editing and creating.                                         *)
(***************************************************************************)
AskDelete(r) ==
  /\ Acts("delete")
  /\ Idle
  /\ {"delete", "force"} \cap Rows[kind] # {}
  /\ r \in shown
  /\ box' = r
  /\ UNCHANGED <<kind, load, world, chosen, memory, scope, shown, editor, dialog, net, history>>

Confirm ==
  /\ box # Nothing
  /\ box' = Nothing
  /\ Sends(net, Ask("delete", chosen, box))
  /\ UNCHANGED <<kind, load, world, chosen, memory, scope, shown, editor, dialog, acts, history>>

Decline ==
  /\ box # Nothing
  /\ box' = Nothing
  /\ UNCHANGED <<kind, load, world, chosen, memory, scope, shown, editor, dialog, net, acts, history>>

Edit(r) ==
  /\ Acts("edit")
  /\ Idle
  /\ "edit" \in Rows[kind]
  /\ r \in shown
  /\ Sends(net, Ask("read", chosen, r))
  /\ UNCHANGED <<kind, load, world, page, history>>

(* Nodes are not created here, persistent volumes in their form.  Without  *)
(* a cluster the request could only fail.                                  *)
Create ==
  /\ Acts("create")
  /\ Idle
  /\ chosen # NoCluster
  /\ kind # "node"
  /\ editor' = [NoEditor EXCEPT !.mode = "create"]
  /\ UNCHANGED <<kind, load, world, chosen, memory, scope, shown, box, dialog, net, history>>

(* The saves of a form: their answers lead to the list, whatever is open,  *)
(* their errors release the form that has sent them, if it was not left.   *)
OfForm(q) == Pages[kind].saves = "form" /\ q.call \in {"create", "update"}
Leave(n) == [i \in DOMAIN n |-> IF OfForm(n[i]) THEN [n[i] EXCEPT !.latest = FALSE] ELSE n[i]]

(* An editor closes when it is saved, a form when its save has succeeded.  *)
Submitted == IF Pages[kind].saves = "form" THEN [editor EXCEPT !.busy = TRUE] ELSE NoEditor

CloseEditor ==
  /\ editor.mode # "closed"
  /\ editor' = NoEditor
  /\ net' = Leave(net)
  /\ UNCHANGED <<kind, load, world, chosen, memory, scope, shown, box, dialog, acts, history>>

SubmitCreate ==
  /\ editor.mode = "create"
  /\ ~editor.busy
  /\ editor' = Submitted
  /\ Sends(net, Ask("create", chosen, Nothing))
  /\ UNCHANGED <<kind, load, world, chosen, memory, scope, shown, box, dialog, acts, history>>

(* Mutant of Blind: uid is dropped with resourceVersion, as a migration    *)
(* does.                                                                   *)
BlindAnonymous(o) == [o EXCEPT !.rev = 0, !.uid = 0]

(* The text of the editor, without resourceVersion: "prevent updates from  *)
(* failing".                                                               *)
Blind(o) == [o EXCEPT !.rev = 0]

Save ==
  /\ editor.mode = "edit"
  /\ ~editor.busy
  /\ editor' = Submitted
  /\ CASE Pages[kind].saves = "blind" -> Sends(net, Ask("update", chosen, Blind(editor.obj)))
       [] Pages[kind].saves = "merge" -> Sends(net, Ask("reread", chosen, editor.obj))
       [] Pages[kind].saves = "form"  -> Sends(net, Ask("update", editor.obj.cluster, editor.obj))
  /\ strayed' = (strayed \/ (Pages[kind].saves # "form" /\ editor.obj.cluster # chosen))
  /\ UNCHANGED <<kind, load, world, chosen, memory, scope, shown, box, dialog, acts,
                 failed, muddled, hurried>>

(***************************************************************************)
(* Migrating: the object becomes a resource of an app, with a template.    *)
(***************************************************************************)
Migrating == \E i \in DOMAIN net : net[i].call \in {"copy", "resource", "template"}

(* openModal: the object of the last migration stays until the answer.     *)
Migrate(r) ==
  /\ Acts("migrate")
  /\ Idle
  /\ "migrate" \in Rows[kind]
  /\ r \in shown
  /\ dialog' = [dialog EXCEPT !.open = TRUE, !.busy = FALSE]
  /\ Sends(net, Ask("copy", chosen, r))
  /\ hurried' = (hurried \/ Migrating)
  /\ UNCHANGED <<kind, load, world, chosen, memory, scope, shown, box, editor,
                 failed, muddled, strayed>>

(* onCancel resets the form, and with it the app; the cross does not.      *)
CloseDialog ==
  /\ dialog.open
  /\ \E app \in {FALSE, dialog.app} : dialog' = [dialog EXCEPT !.open = FALSE, !.app = app]
  /\ UNCHANGED <<kind, load, world, chosen, memory, scope, shown, box, editor, net, acts, history>>

(* Mutant of SubmitMigration: the form is reset when it is submitted.      *)
SubmitMigrationReset ==
  /\ dialog.open
  /\ ~dialog.busy
  /\ IF dialog.obj = Nothing
       THEN dialog' = [dialog EXCEPT !.app = TRUE, !.busy = TRUE] /\ net' = net
       ELSE /\ dialog' = [dialog EXCEPT !.app = FALSE, !.busy = TRUE, !.open = FALSE]
            /\ Sends(net, Ask("resource", NoCluster, dialog.obj))
  /\ hurried' = (hurried \/ Migrating)
  /\ UNCHANGED <<kind, load, world, chosen, memory, scope, shown, box, editor, acts,
                 failed, muddled, strayed>>

(* onSubmit, when an app is chosen.  Without an object it throws.          *)
SubmitMigration ==
  /\ dialog.open
  /\ ~dialog.busy
  /\ IF dialog.obj = Nothing
       THEN dialog' = [dialog EXCEPT !.app = TRUE, !.busy = TRUE] /\ net' = net
       ELSE /\ dialog' = [dialog EXCEPT !.app = TRUE, !.busy = TRUE, !.open = FALSE]
            /\ Sends(net, Ask("resource", NoCluster, dialog.obj))
  /\ hurried' = (hurried \/ Migrating)
  /\ UNCHANGED <<kind, load, world, chosen, memory, scope, shown, box, editor, acts,
                 failed, muddled, strayed>>

(***************************************************************************)
(* The server, the clusters and other hands.                               *)
(***************************************************************************)
(* The list that was read before shows the change no more, and the list of *)
(* the page is out of date until it is answered again.                     *)
Stale(n, c) ==
  [i \in DOMAIN n |-> IF n[i].call = "list" /\ n[i].cluster = c /\ n[i].at = "served"
                        THEN [n[i] EXCEPT !.latest = FALSE] ELSE n[i]]

Others(c) ==
  /\ Acts("others")
  /\ objects' = [objects EXCEPT ![c] =
       IF objects[c].there THEN [objects[c] EXCEPT !.rest = @ + 1, !.rev = @ + 1]
       ELSE Object(c, @.uid + 1)]
  /\ net' = Stale(net, c)
  /\ muddled' = TRUE
  /\ UNCHANGED <<kind, load, cached, made, page, failed, strayed, hurried>>

OthersDelete(c) ==
  /\ Acts("others")
  /\ objects[c].there
  /\ objects' = [objects EXCEPT ![c].there = FALSE]
  /\ net' = Stale(net, c)
  /\ muddled' = TRUE
  /\ UNCHANGED <<kind, load, cached, made, page, failed, strayed, hurried>>

(* The watch tells the cache.                                              *)
Sync(c) ==
  /\ cached[c] # objects[c]
  /\ cached' = [cached EXCEPT ![c] = objects[c]]
  /\ UNCHANGED <<kind, load, objects, made, page, net, acts, history>>

Sent(i, calls) == net[i].at = "sent" /\ net[i].call \in calls

(* The answer of a request that has changed something may be lost.         *)
Serves(n, i) == \E at \in {"served", "failed"} : net' = [n EXCEPT ![i].at = at]

(* What the API server takes for the object o.  A text with the uid or the *)
(* resourceVersion of another is refused, one with none is not.            *)
Accepts(q, o) ==
  CASE q.call = "create" -> ~o.there
    [] q.call = "delete" -> o.there
    [] q.call = "update" -> /\ o.there
                            /\ \/ q.obj.uid = 0
                               \/ <<q.obj.cluster, q.obj.uid>> = <<o.cluster, o.uid>>
                            /\ q.obj.rev \in {0, o.rev}
After(q, o) ==
  CASE q.call = "create" -> Object(q.cluster, o.uid + 1)
    [] q.call = "delete" -> [o EXCEPT !.there = FALSE]
    [] q.call = "update" -> [o EXCEPT !.rev = @ + 1, !.text = q.obj.text, !.rest = q.obj.rest]

ServeChange(i) ==
  /\ Sent(i, {"create", "delete", "update"})
  /\ LET q == net[i]
     IN /\ Accepts(q, objects[q.cluster])
        /\ objects' = [objects EXCEPT ![q.cluster] = After(q, @)]
        /\ Serves(Stale(net, q.cluster), i)
  /\ UNCHANGED <<kind, load, cached, made, page, acts, history>>

Seen(q, what) ==
  IF what \in Pages[kind].cached THEN cached[q.cluster] ELSE objects[q.cluster]

(* A list that the cache answers behind the cluster is out of date.        *)
ServeList(i) ==
  /\ Sent(i, {"list"})
  /\ LET o == Seen(net[i], "list")
     IN net' = [net EXCEPT ![i].at = "served",
                           ![i].obj = IF o.there /\ net[i].scope = "all" THEN o ELSE Nothing,
                           ![i].latest = @ /\ o = objects[net[i].cluster]]
  /\ UNCHANGED <<kind, load, world, page, acts, history>>

ServeGet(i) ==
  /\ Sent(i, Gets)
  /\ LET o == Seen(net[i], "get")
     IN /\ o.there
        /\ net' = [net EXCEPT ![i].at = "served",
                              ![i].obj = IF net[i].call # "reread" THEN o
                                         ELSE [o EXCEPT !.text = IF Pages[kind].spec
                                                                   THEN net[i].obj.text ELSE @]]
  /\ UNCHANGED <<kind, load, world, page, acts, history>>

ServeNames(i) ==
  /\ Sent(i, {"clusters", "names"})
  /\ net' = [net EXCEPT ![i].at = "served"]
  /\ UNCHANGED <<kind, load, world, page, acts, history>>

(* made: the object that gave a resource its name, and that whose text is  *)
(* the resource's template.                                                *)
Created(o) == [resource |-> o, template |-> Nothing]

ServeResource(i) ==
  /\ Sent(i, {"resource"})
  /\ made' = Append(made, Created(net[i].obj))
  /\ Serves([net EXCEPT ![i].n = Len(made')], i)
  /\ UNCHANGED <<kind, load, objects, cached, page, acts, history>>

(* A template whose owner is looked for in another table finds another's.  *)
ServeTemplate(i) ==
  /\ Sent(i, {"template"})
  /\ made' = IF Migrations[kind].creates = Migrations[kind].owner
               THEN [made EXCEPT ![net[i].n].template = net[i].obj] ELSE made
  /\ Serves(net, i)
  /\ UNCHANGED <<kind, load, objects, cached, page, acts, history>>

Refuse(i) ==
  /\ net[i].at = "sent"
  /\ net' = [net EXCEPT ![i].at = "failed"]
  /\ UNCHANGED <<kind, load, world, page, acts, history>>

(***************************************************************************)
(* The answers.                                                            *)
(***************************************************************************)
Answers(i, calls) == net[i].at = "served" /\ net[i].call \in calls
Rest(i) == RemoveAt(net, i)

(* getCluster: the one that is remembered, if it is still there, or the    *)
(* first.                                                                  *)
ClustersAnswered(i) ==
  /\ Answers(i, {"clusters"})
  /\ \E c \in Clusters : /\ memory.cluster # NoCluster => c = memory.cluster
                         /\ Jumps(Rest(i), c)
  /\ UNCHANGED <<kind, load, world, scope, shown, box, editor, dialog, acts, history>>

(* The namespace is the one that is remembered, the cluster the one that   *)
(* is chosen by now.                                                       *)
NamesAnswered(i) ==
  /\ Answers(i, {"names"})
  /\ scope' = memory.scope
  /\ Retrieves(Rest(i), memory, chosen, scope')
  /\ UNCHANGED <<kind, load, world, chosen, shown, box, editor, dialog, acts, history>>

ListAnswered(i) ==
  /\ Answers(i, {"list"})
  /\ shown' = {net[i].obj} \ {Nothing}
  /\ muddled' = ~net[i].latest
  /\ net' = Rest(i)
  /\ UNCHANGED <<kind, load, world, chosen, memory, scope, box, editor, dialog, acts,
                 failed, strayed, hurried>>

(* The editor opens over whatever is open.                                 *)
ReadAnswered(i) ==
  /\ Answers(i, {"read"})
  /\ editor' = [NoEditor EXCEPT !.mode = "edit", !.obj = net[i].obj]
  /\ net' = Leave(Rest(i))
  /\ UNCHANGED <<kind, load, world, chosen, memory, scope, shown, box, dialog, acts, history>>

(* Mutant of RereadAnswered: resourceVersion is dropped, as it is for the  *)
(* namespaced kinds.                                                       *)
RereadAnsweredBlind(i) ==
  /\ Answers(i, {"reread"})
  /\ Sends(Rest(i), Ask("update", chosen, Blind(net[i].obj)))
  /\ UNCHANGED <<kind, load, world, page, acts, history>>

RereadAnswered(i) ==
  /\ Answers(i, {"reread"})
  /\ Sends(Rest(i), Ask("update", chosen, net[i].obj))
  /\ UNCHANGED <<kind, load, world, page, acts, history>>

(* Mutant of ChangeAnswered: nothing is retrieved.                         *)
ChangeAnsweredSilent(i) ==
  /\ Answers(i, {"create", "delete", "update"})
  /\ net' = Rest(i)
  /\ UNCHANGED <<kind, load, world, page, acts, history>>

ChangeAnswered(i) ==
  /\ Answers(i, {"create", "delete", "update"})
  /\ editor' = IF OfForm(net[i]) THEN NoEditor ELSE editor
  /\ Retrieves(IF OfForm(net[i]) THEN Leave(Rest(i)) ELSE Rest(i), memory, chosen, scope)
  /\ UNCHANGED <<kind, load, world, chosen, scope, shown, box, dialog, acts, history>>

CopyAnswered(i) ==
  /\ Answers(i, {"copy"})
  /\ dialog' = [dialog EXCEPT !.obj = net[i].obj]
  /\ net' = Rest(i)
  /\ UNCHANGED <<kind, load, world, chosen, memory, scope, shown, box, editor, acts, history>>

(* The template is made of what the dialog holds by now; without an app    *)
(* the callback throws.                                                    *)
ResourceAnswered(i) ==
  /\ Answers(i, {"resource"})
  /\ IF dialog.app
       THEN Sends(Rest(i), [Ask("template", NoCluster, dialog.obj) EXCEPT !.n = net[i].n])
       ELSE net' = Rest(i)
  /\ UNCHANGED <<kind, load, world, page, acts, history>>

TemplateAnswered(i) ==
  /\ Answers(i, {"template"})
  /\ net' = Rest(i)
  /\ UNCHANGED <<kind, load, world, page, acts, history>>

Failed(i) ==
  /\ net[i].at = "failed"
  /\ net' = Rest(i)
  /\ editor' = IF OfForm(net[i]) /\ net[i].latest THEN [editor EXCEPT !.busy = FALSE] ELSE editor
  /\ failed' = TRUE
  /\ UNCHANGED <<kind, load, world, chosen, memory, scope, shown, box, dialog, acts,
                 muddled, strayed, hurried>>

Next ==
  \/ Refresh \/ Confirm \/ Decline \/ Create \/ CloseEditor \/ SubmitCreate \/ Save
  \/ CloseDialog \/ SubmitMigration
  \/ \E c \in Clusters : Switch(c) \/ Others(c) \/ OthersDelete(c) \/ Sync(c)
  \/ \E s \in {"all", "other"} : Scope(s)
  \/ \E r \in shown : AskDelete(r) \/ Edit(r) \/ Migrate(r)
  \/ \E i \in DOMAIN net :
       \/ ServeChange(i) \/ ServeList(i) \/ ServeGet(i) \/ ServeNames(i)
       \/ ServeResource(i) \/ ServeTemplate(i) \/ Refuse(i)
       \/ ClustersAnswered(i) \/ NamesAnswered(i) \/ ListAnswered(i)
       \/ ReadAnswered(i) \/ RereadAnswered(i) \/ ChangeAnswered(i)
       \/ CopyAnswered(i) \/ ResourceAnswered(i) \/ TemplateAnswered(i) \/ Failed(i)

Spec == Init /\ [][Next]_vars

(***************************************************************************)
(* What is expected of the pages.                                          *)
(***************************************************************************)
Objects ==
  [cluster : Clusters \cup {NoCluster}, uid : Nat, there : BOOLEAN, rev : Nat,
   text : (Clusters \cup {NoCluster}) \X Nat, rest : Nat]
Requests ==
  [call : Calls, cluster : Clusters \cup {NoCluster}, scope : {"all", "other"}, obj : Objects,
   n : Nat, at : {"sent", "served", "failed"}, latest : BOOLEAN]

(* Every variable has its type; what concerns an object in a cluster is    *)
(* asked of a cluster, and a template is for a resource that was made.     *)
TypeOK ==
  /\ kind \in Kinds /\ load \in Workloads
  /\ objects \in [Clusters -> Objects] /\ cached \in [Clusters -> Objects]
  /\ chosen \in Clusters \cup {NoCluster}
  /\ memory \in [cluster : Clusters \cup {NoCluster}, scope : {"all", "other"}]
  /\ scope \in {"all", "other"}
  /\ shown \subseteq Objects /\ box \in Objects
  /\ editor \in [mode : {"closed", "edit", "create"}, obj : Objects, busy : BOOLEAN]
  /\ dialog \in [open : BOOLEAN, app : BOOLEAN, busy : BOOLEAN, obj : Objects]
  /\ made \in Seq([resource : Objects, template : Objects])
  /\ net \in Seq(Requests)
  /\ \A i \in DOMAIN net :
       /\ net[i].call \notin {"clusters", "resource", "template"} => net[i].cluster \in Clusters
       /\ net[i].call = "template" => net[i].n \in DOMAIN made
  /\ acts \in 0..MaxActs
  /\ failed \in BOOLEAN /\ muddled \in BOOLEAN /\ strayed \in BOOLEAN /\ hurried \in BOOLEAN

(* When every answer has come, and none was an error, the page lists the   *)
(* object of the cluster that is chosen, as the cluster has it, unless an  *)
(* overtaken list came last, the cache was behind when it was asked, or    *)
(* other hands have changed the cluster since.                             *)
ShownIsOfCluster ==
  net = <<>> /\ ~failed /\ ~muddled =>
    shown = IF objects[chosen].there /\ scope = "all" THEN {objects[chosen]} ELSE {}

(* The text of an object was never written for another: not for that of    *)
(* another cluster, unless a text was saved there whose object was read    *)
(* elsewhere, nor, where the text is saved as it is, for one that was      *)
(* deleted since.                                                          *)
TextIsItsOwn ==
  \A c \in Clusters : objects[c].there =>
    /\ (Pages[kind].saves = "merge" /\ strayed) \/ objects[c].text[1] = c
    /\ Pages[kind].saves # "merge" => objects[c].text = <<c, objects[c].uid>>

(* Except where the text is saved blindly, a save undoes no change that    *)
(* other hands have made to the rest of the object since it was read,      *)
(* however old the copy in the cache is.                                   *)
OthersAreKept ==
  [][\A c \in Clusters :
       /\ Pages[kind].saves # "blind"
       /\ objects[c].there /\ objects'[c].there /\ objects'[c].uid = objects[c].uid
       => objects'[c].rest >= objects[c].rest]_vars

(* A resource that a migration has made never has the template of another  *)
(* object than that which gave it its name, whatever fails on the way, if  *)
(* the administrator has waited for the answers each time; and it has one, *)
(* when they have come and none was an error.                              *)
MigrationIsWhole ==
  ~hurried => \A n \in DOMAIN made :
    /\ made[n].template \in {Nothing, made[n].resource}
    /\ ~Migrating /\ ~failed => made[n].template = made[n].resource
==============================================================================
