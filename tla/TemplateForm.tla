----------------------------- MODULE TemplateForm ----------------------------
(***************************************************************************)
(* A user of the portal writes templates of one resource, with the form of *)
(* its kind.  A template that is stored never changes: the form for        *)
(* editing one writes another.  The form can hand its text to an editor    *)
(* and take it back.                                                       *)
(*                                                                         *)
(* A form is destroyed when it is left and built anew when it is opened,   *)
(* but its request to save goes on, and the answer leads to the list,      *)
(* whatever is shown by then.                                              *)
(***************************************************************************)
EXTENDS FormKinds, FiniteSets

CONSTANTS Kinds,       \* the kinds of resource that are looked at
          MaxStored,   \* bound: the templates, with those being saved
          MaxOpenings, \* bound: how often a form is opened
          MaxChanges   \* bound: changes per opening, by a control or the editor

ASSUME FormAssumption ==
  /\ Kinds \subseteq FormKinds
  /\ MaxStored \in Nat
  /\ MaxOpenings \in Nat
  /\ MaxChanges \in Nat

VARIABLES kind,     \* the kind of resource
          stored,   \* the templates, in the order they were stored
          page,     \* the form, or the list
          form,     \* what the form shows, per facet
          editor,   \* the text in the editor
          saving,   \* the requests to save that are under way
          openings, \* bounded steps so far
          changes

vars == <<kind, stored, page, form, editor, saving, openings, changes>>

PlainText(k) == [f \in Facets(k) |-> Plain[f]]

(* text: what is stored; broken: its conversion throws.  from: the         *)
(* template that was opened, 0 for a new one, and, as history variables,   *)
(* whether it had been read, and the facets that the user has changed.     *)
Template(text, from, read, changed) ==
  [text |-> text, broken |-> FALSE, from |-> from, read |-> read, changed |-> changed]

(* at: list or form.  of: the template it was opened for.  state: waiting  *)
(* for what it reads, ready, failed, or halfway when the conversion threw, *)
(* which leaves the form as it was.  thrown: onSubmit has thrown with the  *)
(* flag busy (isSubmitOnGoing) set.                                        *)
Page(at, of, opening, state) ==
  [at |-> at, of |-> of, opening |-> opening, state |-> state,
   changed |-> {}, busy |-> FALSE, thrown |-> FALSE]
List == Page("list", 0, 0, "ready")

NoEditor == [open |-> FALSE, text |-> <<>>]

(* What a new form shows.                                                  *)
NewForm ==
  [command |-> 0, hook |-> 0, limit |-> [mi |-> 1024, request |-> "none"],
   selector |-> "empty", strategy |-> "set",
   rows |-> [rows |-> {"a"}, kept |-> Absent], storage |-> [mi |-> 1024, unit |-> "bare"],
   clusters |-> {}, api |-> "v2", host |-> "blank"]
Default == [f \in Facets(kind) |-> NewForm[f]]

Ignored(f, t) == f = "rows" /\ kind \in DataForms /\ ~t.has

(* save...: the form shows the text, all of it or what the editor holds.   *)
Opened(text, arrived) ==
  [f \in Facets(kind) |->
     IF (f = "clusters" /\ ~arrived) \/ Ignored(f, text[f]) THEN form[f]
     ELSE IF f \in Forms[kind].opens \/ (arrived /\ f \in Forms[kind].arrives)
          THEN Shown(f, text[f])
     ELSE text[f]]

(* generate...: the text of the form.                                      *)
Generated ==
  [f \in Facets(kind) |->
     IF f \in Forms[kind].writes THEN Written(f, form[f]) ELSE form[f]]

(* The forms with clusters write into the object they keep.                *)
Kept ==
  IF "rows" \in Facets(kind) THEN [form EXCEPT !.rows.kept = RowsOf(form.rows)] ELSE form

(* generate... dereferences what was read, and the selector.               *)
WritingThrows ==
  \/ page.state \in {"waiting", "failed"}
  \/ "selector" \in Facets(kind) /\ form.selector = "absent"

(* Mutant of Throws: generate... does without the app and the resource.    *)
ThrowsNot == FALSE

(* onSubmit dereferences the groups of checkboxes as well.                 *)
Throws == WritingThrows \/ (page.state = "halfway" /\ kind \in ClusterForms)

(* One template is stored, with at most one facet that is not plain.       *)
Init ==
  /\ kind \in Kinds
  /\ \E f \in Facets(kind), b \in BOOLEAN : \E t \in Texts[f] :
       /\ b => t = Plain[f]
       /\ stored = <<[Template([PlainText(kind) EXCEPT ![f] = t], 0, FALSE, {})
                       EXCEPT !.broken = b]>>
  /\ openings = 0
  /\ changes = 0
  /\ page = List
  /\ form = Default
  /\ editor = NoEditor
  /\ saving = {}

(***************************************************************************)
(* Opening a form: ngOnInit.                                               *)
(***************************************************************************)
Open ==
  /\ page.at = "list"
  /\ openings < MaxOpenings
  /\ openings' = openings + 1
  /\ \E i \in 0..Len(stored) : page' = Page("form", i, openings', "waiting")
  /\ UNCHANGED <<kind, stored, form, editor, saving, changes>>

(* combineLatest calls once, when everything has been read.  What the user *)
(* has changed before is lost.                                             *)
Answered ==
  /\ page.state = "waiting"
  /\ LET t == stored[page.of]
     IN IF page.of = 0 THEN /\ page' = [page EXCEPT !.state = "ready"]
                            /\ form' = form
        ELSE IF t.broken THEN /\ page' = [page EXCEPT !.state = "halfway"]
                              /\ form' = form
        ELSE /\ page' = [page EXCEPT !.state = "ready", !.changed = {}]
             /\ form' = Opened(t.text, TRUE)
  /\ UNCHANGED <<kind, stored, editor, saving, openings, changes>>

(* One of the reads fails.                                                 *)
ReadFails ==
  /\ page.state = "waiting"
  /\ page' = [page EXCEPT !.state = "failed"]
  /\ UNCHANGED <<kind, stored, form, editor, saving, openings, changes>>

(***************************************************************************)
(* What the user does.                                                     *)
(***************************************************************************)
AtForm == page.at = "form" /\ ~editor.open

(* Clusters can be chosen once they are known.  configMaps and secrets     *)
(* keep at least one row.                                                  *)
Settable(f, v) ==
  /\ f = "clusters" => page.state = "ready"
  /\ f = "rows" /\ kind \in DataForms => v # {}

Change ==
  /\ AtForm
  /\ changes < MaxChanges
  /\ changes' = changes + 1
  /\ \E f \in Forms[kind].edits : \E v \in Controls[f] :
       /\ Settable(f, v)
       /\ form' = [form EXCEPT ![f] = Set(f, v, @)]
       /\ page' = [page EXCEPT !.changed = @ \cup {f}]
  /\ UNCHANGED <<kind, stored, editor, saving, openings>>

(* openModal.  Where writing throws, nothing happens.                      *)
OpenEditor ==
  /\ AtForm
  /\ ~WritingThrows
  /\ editor' = [open |-> TRUE, text |-> Generated]
  /\ form' = Kept
  /\ UNCHANGED <<kind, stored, page, saving, openings, changes>>

CloseEditor ==
  /\ editor.open
  /\ editor' = NoEditor
  /\ UNCHANGED <<kind, stored, page, form, saving, openings, changes>>

(* The text comes back, unchanged or not.                                  *)
SaveEditor ==
  /\ editor.open
  /\ editor' = NoEditor
  /\ \/ /\ form' = Opened(editor.text, FALSE)
        /\ UNCHANGED <<page, changes>>
     \/ /\ changes < MaxChanges
        /\ changes' = changes + 1
        /\ \E f \in Facets(kind) \ {"clusters"} : \E t \in Texts[f] :
             /\ form' = Opened([editor.text EXCEPT ![f] = t], FALSE)
             /\ page' = [page EXCEPT !.changed = @ \cup {f}]
  /\ UNCHANGED <<kind, stored, saving, openings>>

(* onSubmit.  What is sent is always a new template.                       *)
Submit ==
  /\ AtForm
  /\ ~page.busy
  /\ Len(stored) + Cardinality(saving) < MaxStored
  /\ IF Throws THEN /\ page' = [page EXCEPT !.busy = TRUE, !.thrown = TRUE]
                    /\ UNCHANGED <<form, saving>>
     ELSE /\ page' = [page EXCEPT !.busy = TRUE]
          /\ form' = Kept
          /\ saving' = saving \cup
               {[opening |-> page.opening,
                 template |-> Template(Generated, page.of, page.of # 0 /\ page.state = "ready",
                                       page.changed)]}
  /\ UNCHANGED <<kind, stored, editor, openings, changes>>

(* The form is destroyed, and with it its editor.                          *)
GoToList ==
  /\ page' = List
  /\ form' = Default
  /\ editor' = NoEditor
  /\ changes' = 0

(* onCancel, or another page of the portal.                                *)
Leave ==
  /\ AtForm
  /\ GoToList
  /\ UNCHANGED <<kind, stored, saving, openings>>

(***************************************************************************)
(* The answers to a save.                                                  *)
(***************************************************************************)
(* The server parses the text.                                             *)
Accepted(t) == "storage" \in Facets(kind) => t.text.storage.unit # "MiGi"

Stored(s) ==
  /\ saving' = saving \ {s}
  /\ stored' = Append(stored, s.template)
  /\ GoToList
  /\ UNCHANGED <<kind, openings>>

(* Mutant of Refused: the flag of whatever form is shown is lowered.       *)
RefusedAnyhow(s) ==
  /\ saving' = saving \ {s}
  /\ page' = [page EXCEPT !.busy = FALSE]
  /\ \/ stored' = stored
     \/ Accepted(s.template) /\ stored' = Append(stored, s.template)
  /\ UNCHANGED <<kind, form, editor, openings, changes>>

(* An error: the template was refused, or was stored and the answer lost.  *)
Refused(s) ==
  /\ saving' = saving \ {s}
  /\ page' = IF s.opening = page.opening THEN [page EXCEPT !.busy = FALSE] ELSE page
  /\ \/ stored' = stored
     \/ Accepted(s.template) /\ stored' = Append(stored, s.template)
  /\ UNCHANGED <<kind, form, editor, openings, changes>>

SaveAnswered == \E s \in saving : (Accepted(s.template) /\ Stored(s)) \/ Refused(s)

Next ==
  \/ Open \/ Answered \/ ReadFails
  \/ Change \/ OpenEditor \/ CloseEditor \/ SaveEditor \/ Submit \/ Leave
  \/ SaveAnswered

Spec == Init /\ [][Next]_vars

(***************************************************************************)
(* Properties.                                                             *)
(***************************************************************************)
TypeOK ==
  /\ kind \in Kinds
  /\ \A i \in 1..Len(stored) :
       /\ DOMAIN stored[i].text = Facets(kind)
       /\ stored[i].from \in 0..(i - 1)
       /\ stored[i].changed \subseteq Facets(kind)
  /\ page.at \in {"list", "form"}
  /\ page.of \in 0..Len(stored)
  /\ page.state \in {"waiting", "ready", "halfway", "failed"}
  /\ page.state = "waiting" => page.at = "form"
  /\ page.thrown => page.busy
  /\ \A f \in Facets(kind) : form[f] \in Displays[f]
  /\ editor.open => page.at = "form" /\ DOMAIN editor.text = Facets(kind)
  /\ \A s \in saving : s.opening <= openings
  /\ openings <= MaxOpenings
  /\ changes <= MaxChanges

(* What a form cannot show, and so changes by being opened and saved: an   *)
(* element of a command with a newline in it, a limit without a unit, a    *)
(* request that is not the percentage of the limit, a strategy left to     *)
(* Kubernetes, an empty selector, data left out, a cluster that the        *)
(* namespace has lost.                                                     *)
Shows(f, t) ==
  CASE f \in {"command", "hook"} -> \A i \in DOMAIN t : t[i] = 1
    [] f = "limit" -> t.mi = 0 \/ (t.unit # "bytes" /\ t.request = "own")
    [] f = "selector" -> t # "empty"
    [] f = "strategy" -> t # "absent"
    [] f = "rows" -> kind \in DataForms => t.has
    [] f = "clusters" -> t \subseteq {"here"}
    [] OTHER -> TRUE

Same(f, t, u) ==
  CASE f = "limit" -> t.mi = u.mi /\ (t.mi # 0 => t.request = u.request)
    [] f = "storage" -> t.mi = u.mi
    [] f = "api" -> TRUE
    [] f = "host" -> (t = "set") = (u = "set")
    [] OTHER -> t = u

(* What the user did not change survives: a template that is opened,       *)
(* looked at in the editor or not, and saved, says the same as the one it  *)
(* was opened from, in every part that the form can show; and a form       *)
(* writes nothing that a form cannot show, so that from the second saving  *)
(* on nothing drifts.                                                      *)
UnchangedIsKept ==
  \A i \in 2..Len(stored), f \in Facets(kind) :
    LET t == stored[i]
    IN /\ Shows(f, t.text[f])
       /\ t.read /\ f \notin t.changed =>
            LET p == stored[t.from]
            IN Shows(f, p.text[f]) => Same(f, p.text[f], t.text[f])

(* The form for editing shows the values of a new template until the       *)
(* template is read.  They are never saved in its stead, unless the        *)
(* conversion of the template threw.  Nothing guards it but the access to  *)
(* the app, or to the clusters, that are read together with the template.  *)
UnreadIsNotSaved ==
  \A i \in 2..Len(stored) :
    stored[i].from # 0 /\ ~stored[i].read => stored[stored[i].from].broken

(* A form cannot be submitted exactly while its own save is under way, or  *)
(* once it has thrown: the answer to a save releases its form, and that to *)
(* the save of a form that was left releases no other.                     *)
BusyIsSaving ==
  page.at = "form" =>
    (page.busy <=> page.thrown \/ \E s \in saving : s.opening = page.opening)
===============================================================================
