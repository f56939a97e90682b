------------------------------- MODULE Console --------------------------------
(***************************************************************************)
(* The operators' catalog pages over the requests of Catalog: a table that  *)
(* is loaded once, a form and a stock editor in each row, and answers that   *)
(* arrive late, or never.  A step is one callback of a page.                  *)
(***************************************************************************)
EXTENDS Catalog

CONSTANTS
  Operators      \* each with one page

ASSUME OperatorsAssumption == NoOne \notin Operators

VARIABLES
  screen,     \* screen[o]: the state of the page of o
  rows,       \* rows[o][p]: the product as the page of o shows it
  counts,     \* counts[o][p]: the quantity it shows
  form,       \* form[o][p]: the row's edit form
  draft,      \* draft[o][p]: what is typed in the form
  editor,     \* editor[o][p]: the row's stock editor
  origin      \* origin[r]: the page that waits for r

pageVars == <<screen, rows, counts, form, draft, editor, origin>>
vars == <<product, stock, inserter, locker, call, pc, read, dirty, units, faults,
          screen, rows, counts, form, draft, editor, origin>>

Idle == [kind |-> "idle"]
Editors == {Idle} \cup [kind : {"confirming", "error"}, delta : Deltas]
                  \cup [kind : {"saving"}, r : Requests] \cup [kind : {"done"}]

Init ==
  /\ CatalogInit
  /\ screen = [o \in Operators |-> "closed"]
  /\ rows = [o \in Operators |-> [p \in Products |-> NoRow]]
  /\ counts = [o \in Operators |-> [p \in Products |-> NoStock]]
  /\ form = [o \in Operators |-> [p \in Products |-> "closed"]]
  /\ draft = [o \in Operators |-> [p \in Products |-> NoRow]]
  /\ editor = [o \in Operators |-> [p \in Products |-> Idle]]
  /\ origin = [r \in Requests |-> NoOne]

\* The page of o asks for c.
Ask(o, r, c) == Send(r, c) /\ origin' = [origin EXCEPT ![r] = o]

\* Another client of the API: an operator elsewhere, or the creation of a product, which
\* the console has no form for.
AskElsewhere(r) ==
  /\ \E c \in Call : c.op # "list" /\ Send(r, c)
  /\ UNCHANGED pageVars

\* load, when the page is opened and on Retry.
Load(o, r) ==
  /\ screen[o] \in {"closed", "failed"}
  /\ Ask(o, r, [op |-> "list"])
  /\ screen' = [screen EXCEPT ![o] = "loading"]
  /\ UNCHANGED <<rows, counts, form, draft, editor>>

\* Rows can be touched that the page shows.
Shows(o, p) == screen[o] = "ready" /\ rows[o][p] # NoRow

\* The form takes the place of the row, and of its stock editor.
StartEditing(o, p) ==
  /\ Shows(o, p) /\ form[o][p] = "closed"
  /\ form' = [form EXCEPT ![o][p] = "open"]
  /\ draft' = [draft EXCEPT ![o][p] = rows[o][p]]
  /\ editor' = [editor EXCEPT ![o][p] = Idle]
  /\ UNCHANGED <<catalogVars, screen, rows, counts, origin>>

Type(o, p) ==
  /\ form[o][p] = "open"
  /\ \E row \in Rows, f \in Fields :
       draft' = [draft EXCEPT ![o][p] = [@ EXCEPT ![f] = row[f]]]
  /\ UNCHANGED <<catalogVars, screen, rows, counts, form, editor, origin>>

\* What was typed is forgotten: startEditing begins with the row.
CloseForm(o, p) ==
  /\ form' = [form EXCEPT ![o][p] = "closed"]
  /\ draft' = [draft EXCEPT ![o][p] = NoRow]

\* Mutant of Cancel: the button is not disabled while the row is saved.
CancelAlways(o, p) ==
  /\ form[o][p] \in {"open", "saving"}
  /\ CloseForm(o, p)
  /\ UNCHANGED <<catalogVars, screen, rows, counts, editor, origin>>

Cancel(o, p) ==
  /\ form[o][p] = "open"
  /\ CloseForm(o, p)
  /\ UNCHANGED <<catalogVars, screen, rows, counts, editor, origin>>

\* The fields that differ from the row as it is shown.
DiffChanges(o, p) ==
  LET changed == {f \in Fields : draft[o][p][f] # rows[o][p][f]}
  IN [f \in changed |-> draft[o][p][f]]

Save(o, p, r) ==
  /\ form[o][p] = "open"
  /\ IF draft[o][p] = rows[o][p]
     THEN CloseForm(o, p) /\ UNCHANGED <<catalogVars, origin>>
     ELSE /\ Ask(o, r, [op |-> "patch", p |-> p, changes |-> DiffChanges(o, p)])
          /\ form' = [form EXCEPT ![o][p] = "saving"]
          /\ UNCHANGED draft
  /\ UNCHANGED <<screen, rows, counts, editor>>

Edited(o, p, e) ==
  /\ editor' = [editor EXCEPT ![o][p] = e]
  /\ UNCHANGED <<screen, rows, counts, form, draft>>

\* A delta is entered, and is to be confirmed.
RequestConfirm(o, p) ==
  /\ Shows(o, p) /\ form[o][p] = "closed"
  /\ editor[o][p].kind \in {"idle", "confirming", "error"}
  /\ \E d \in Deltas \ {0} : Edited(o, p, [kind |-> "confirming", delta |-> d])
  /\ UNCHANGED <<catalogVars, origin>>

\* Cancel, Back to editing and Adjust again.
StartOver(o, p) ==
  /\ form[o][p] = "closed"
  /\ editor[o][p].kind \in {"confirming", "error", "done"}
  /\ Edited(o, p, Idle)
  /\ UNCHANGED <<catalogVars, origin>>

\* Confirm, and Retry after an error.
Confirm(o, p, r) ==
  /\ form[o][p] = "closed"
  /\ editor[o][p].kind \in {"confirming", "error"}
  /\ Ask(o, r, [op |-> "adjust", p |-> p, delta |-> editor[o][p].delta])
  /\ Edited(o, p, [kind |-> "saving", r |-> r])

\* The page of r is left: nobody waits for its answers any more.
Leave(o) ==
  /\ screen[o] # "closed"
  /\ screen' = [screen EXCEPT ![o] = "closed"]
  /\ rows' = [rows EXCEPT ![o] = [p \in Products |-> NoRow]]
  /\ counts' = [counts EXCEPT ![o] = [p \in Products |-> NoStock]]
  /\ form' = [form EXCEPT ![o] = [p \in Products |-> "closed"]]
  /\ draft' = [draft EXCEPT ![o] = [p \in Products |-> NoRow]]
  /\ editor' = [editor EXCEPT ![o] = [p \in Products |-> Idle]]
  /\ origin' = [r \in Requests |-> IF origin[r] = o THEN NoOne ELSE origin[r]]
  /\ UNCHANGED catalogVars

Answered(r) == origin' = [origin EXCEPT ![r] = NoOne]

\* The catalog is there.
Loaded(o, r) ==
  /\ origin[r] = o /\ At(r, "ok", "list")
  /\ screen' = [screen EXCEPT ![o] = "ready"]
  /\ rows' = [rows EXCEPT ![o] = read[r]]
  /\ counts' = [counts EXCEPT ![o] = units[r]]
  /\ Answered(r)
  /\ UNCHANGED <<catalogVars, form, draft, editor>>

\* handleSave: the row is replaced by the answer, and the form closed.
Saved(o, r) ==
  LET p == call[r].p
  IN /\ origin[r] = o /\ At(r, "ok", "patch")
     /\ rows' = [rows EXCEPT ![o][p] = read[r][p]]
     /\ CloseForm(o, p)
     /\ Answered(r)
     /\ UNCHANGED <<catalogVars, screen, counts, editor>>

\* handleAdjust: the quantity is replaced; the editor that asked may be gone.
Adjusted(o, r) ==
  LET p == call[r].p
  IN /\ origin[r] = o /\ At(r, "ok", "adjust")
     /\ counts' = [counts EXCEPT ![o][p] = units[r][p]]
     /\ editor' = IF editor[o][p] = [kind |-> "saving", r |-> r]
                  THEN [editor EXCEPT ![o][p] = [kind |-> "done"]] ELSE editor
     /\ Answered(r)
     /\ UNCHANGED <<catalogVars, screen, rows, form, draft>>

\* Mutant of Failed: the error of a save is shown, and the form stays disabled.
FailedDisabled(o, r) ==
  /\ screen' = IF call[r].op = "list" THEN [screen EXCEPT ![o] = "failed"] ELSE screen
  /\ editor' = IF call[r].op = "adjust"
                  /\ editor[o][call[r].p] = [kind |-> "saving", r |-> r]
               THEN [editor EXCEPT ![o][call[r].p] =
                       [kind |-> "error", delta |-> call[r].delta]]
               ELSE editor
  /\ Answered(r)
  /\ UNCHANGED <<rows, counts, form, draft>>

\* What a page does with an error: load, save and confirm.
Failed(o, r) ==
  /\ screen' = IF call[r].op = "list" THEN [screen EXCEPT ![o] = "failed"] ELSE screen
  /\ form' = IF call[r].op = "patch" THEN [form EXCEPT ![o][call[r].p] = "open"] ELSE form
  /\ editor' = IF call[r].op = "adjust"
                  /\ editor[o][call[r].p] = [kind |-> "saving", r |-> r]
               THEN [editor EXCEPT ![o][call[r].p] =
                       [kind |-> "error", delta |-> call[r].delta]]
               ELSE editor
  /\ Answered(r)
  /\ UNCHANGED <<rows, counts, draft>>

Refused(o, r) ==
  /\ origin[r] = o /\ pc[r] = "refused"
  /\ Failed(o, r)
  /\ UNCHANGED catalogVars

\* The connection breaks, whatever the server does with the request.
Drop(o, r) ==
  /\ origin[r] = o
  /\ faults < MaxFaults
  /\ faults' = faults + 1
  /\ Failed(o, r)
  /\ UNCHANGED <<product, stock, inserter, locker, call, pc, read, dirty, units>>

Receive(o, r) == Loaded(o, r) \/ Saved(o, r) \/ Adjusted(o, r) \/ Refused(o, r)

Act(o, p, r) == \/ StartEditing(o, p) \/ Type(o, p) \/ Cancel(o, p) \/ Save(o, p, r)
                \/ RequestConfirm(o, p) \/ StartOver(o, p) \/ Confirm(o, p, r)

Next ==
  \/ \E r \in Requests :
       \/ (Serve(r) \/ CrashRequest(r)) /\ UNCHANGED pageVars
       \/ AskElsewhere(r)
       \/ \E o \in Operators : Load(o, r) \/ Receive(o, r) \/ Drop(o, r)
       \/ \E o \in Operators, p \in Products : Act(o, p, r)
  \/ \E o \in Operators : Leave(o)

Spec == Init /\ [][Next]_vars

\* The server runs what it was sent, and pages take the answers they wait for.  A request
\* takes a few steps and is answered once, so none is left out for ever.
FairSpec ==
  /\ Spec
  /\ WF_vars(\E r \in Requests : Serve(r) /\ UNCHANGED pageVars)
  /\ WF_vars(\E o \in Operators, r \in Requests : Receive(o, r))

-----------------------------------------------------------------------------
\* Every variable stays in its type.
TypeOK ==
  /\ CatalogTypeOK
  /\ screen \in [Operators -> {"closed", "loading", "failed", "ready"}]
  /\ rows \in [Operators -> [Products -> Rows \cup {NoRow}]]
  /\ counts \in [Operators -> [Products -> Quantities \cup {NoStock}]]
  /\ form \in [Operators -> [Products -> {"closed", "open", "saving"}]]
  /\ draft \in [Operators -> [Products -> Rows \cup {NoRow}]]
  /\ editor \in [Operators -> [Products -> Editors]]
  /\ origin \in [Requests -> Operators \cup {NoOne}]

\* "Diff the edit draft against the last confirmed product": when the answer to a save
\* comes, the form still says what was sent and the row is still the one it differed
\* from, so no answer closes a form, or replaces a row, that it is not about.
SavesMatchForms ==
  \A r \in Requests :
    LET o == origin[r]
        p == call[r].p
    IN o # NoOne /\ call[r].op = "patch" =>
         form[o][p] = "saving" /\ call[r].changes = DiffChanges(o, p)

\* A page does not wait for ever: its table, its forms and its stock editors.
PagesSettle ==
  \A o \in Operators :
    /\ screen[o] = "loading" ~> screen[o] # "loading"
    /\ \A p \in Products :
         /\ form[o][p] = "saving" ~> form[o][p] # "saving"
         /\ editor[o][p].kind = "saving" ~> editor[o][p].kind # "saving"
=============================================================================
