----------------------------- MODULE RulesPage ------------------------------
(* The page of the rules and its form, which previews what its draft would  *)
(* do to the ledger before it is saved. The preview is asked for per draft, *)
(* a window of the matches at a time; an edit of the rule collapses it, a   *)
(* flag of how the rule is saved leaves it open and asks again.             *)
EXTENDS Naturals, FiniteSets, QueryCache

CONSTANT MaxWrites          \* bound: writes in a behaviour

VARIABLES ui, q, net, log

vars == <<ui, q, net, log>>

None == "none"
Flags == {"apply", "overwrite"} \* the one that makes the rule inactive is like the first
Texts == {"rule", "blank"}  \* what the rule says, and the same with a condition left blank
Drafts == [text : Texts, flags : SUBSET Flags]
Nothing == [text |-> "blank", flags |-> {}]
Windows == 2                \* bound: windows of one preview
MaxPreviews == 2            \* bound: calls in flight when a preview is asked for
Rows == {"delete", "packs", "import", None}
Writes == {"create", "update", "delete", "applyAll", "export", "import", "install"}

(* draft: of the form that is open; panel: its preview is expanded; shown: the draft its  *)
(* rows are of, rows: the windows read. net also holds the previews asked for, and what a *)
(* save had shown.                                                                        *)
TypeOK ==
  /\ ui \in [over : {"form", "edit"} \cup Rows, draft : Drafts, panel : BOOLEAN, shown : Drafts,
             rows : 0..Windows]
  /\ q \in [file : BOOLEAN]
  /\ net \subseteq [do : Writes \cup {"preview", "more"}, of : Drafts, saw : Drafts, st : {"sent"}]
  /\ log \in [n : 0..MaxWrites]
-----------------------------------------------------------------------------
Blank == [over |-> None, draft |-> Nothing, panel |-> FALSE, shown |-> Nothing, rows |-> 0]
Call(do, of, saw) == [do |-> do, of |-> of, saw |-> saw, st |-> "sent"]

Init == ui = Blank /\ q = [file |-> FALSE] /\ net = {} /\ log = [n |-> 0]

Page == ui.over = None
In(over) == ui.over = over
Form == ui.over \in {"form", "edit"}
Changes(v) == ui' = v /\ UNCHANGED <<q, net, log>>
Writing(c) ==
  /\ log.n < MaxWrites
  /\ net' = net \cup {c}
  /\ log' = [log EXCEPT !.n = @ + 1]
  /\ UNCHANGED <<ui, q>>
Write(do) == Writing(Call(do, Nothing, Nothing))
Close == ui.over # None /\ (ui.over = "delete" => ~Pending(net, {"delete"})) /\ Changes(Blank)
-----------------------------------------------------------------------------
(* A rule is removed, packs are installed, or a file's rules are imported once it is  *)
(* read; a file that is read late takes the place of what is open (left out: over the *)
(* form, which stays below).                                                          *)
AskDelete == Page /\ ~Pending(net, {"delete"}) /\ Changes([Blank EXCEPT !.over = "delete"])
Delete == In("delete") /\ ~Pending(net, {"delete"}) /\ Write("delete")
ApplyAll == Page /\ ~Pending(net, {"applyAll"}) /\ Write("applyAll")
Export == Page /\ ~Pending(net, {"export"}) /\ Write("export")
OpenPacks == Page /\ Changes([Blank EXCEPT !.over = "packs"])
Install == In("packs") /\ ~Pending(net, {"install"}) /\ Write("install")
ChooseFile ==
  /\ Page /\ ~Pending(net, {"import"}) /\ ~q.file
  /\ q' = [q EXCEPT !.file = TRUE] /\ UNCHANGED <<ui, net, log>>
FileRead ==
  /\ q.file /\ ~Form
  /\ q' = [q EXCEPT !.file = FALSE]
  /\ \/ ui' = [Blank EXCEPT !.over = "import"]
     \/ UNCHANGED ui                   \* it is no file of rules
  /\ UNCHANGED <<net, log>>
Import == In("import") /\ ~Pending(net, {"import"}) /\ Write("import")
-----------------------------------------------------------------------------
(* The form starts anew each time it opens; a new rule is applied to what is there already. *)
OpenCreate == Page /\ Changes([Blank EXCEPT !.over = "form", !.draft.flags = {"apply"}])
OpenEdit == Page /\ Changes([Blank EXCEPT !.over = "edit", !.draft.text = "rule"])

(* The preview is kept under the whole draft: its text and its flags. *)
KeyOfText(v) == [v EXCEPT !.flags = {}]        \* broken: the flags are left out
Key(v) == v
Shown(v, draft) ==                      \* what is read stays only under the same key
  IF Key(draft) = Key(v.draft) THEN [v EXCEPT !.draft = draft]
  ELSE [v EXCEPT !.draft = draft, !.shown = Nothing, !.rows = 0]
Asks(v) ==
  /\ Cardinality(net) < MaxPreviews
  /\ ui' = v
  /\ net' = IF v.panel /\ v.rows = 0 THEN net \cup {Call("preview", v.draft, Nothing)} ELSE net
  /\ UNCHANGED <<q, log>>
EditRule(text) ==
  /\ Form /\ text # ui.draft.text
  /\ Asks([Shown(ui, [ui.draft EXCEPT !.text = text]) EXCEPT !.panel = FALSE])
SetFlag(f) ==
  /\ Form /\ (f = "overwrite" => "apply" \in ui.draft.flags)
  /\ LET flags == IF f \in ui.draft.flags THEN ui.draft.flags \ {f} ELSE ui.draft.flags \cup {f}
     IN Asks(Shown(ui, [ui.draft EXCEPT !.flags = flags]))
TogglePanel == Form /\ (ui.panel \/ ui.draft.text # "blank") /\ Asks([ui EXCEPT !.panel = ~@])
More ==
  /\ Form /\ ui.panel /\ ui.rows \in 1..(Windows - 1) /\ Cardinality(net) < MaxPreviews
  /\ net' = net \cup {Call("more", ui.draft, Nothing)}
  /\ UNCHANGED <<ui, q, log>>

(* An answer is put under the draft that asked for it, whichever is on screen. *)
Previewed(c) ==
  /\ c \in net /\ c.do \in {"preview", "more"}
  /\ net' = net \ {c}
  /\ ui' = IF ~Form \/ Key(c.of) # Key(ui.draft) THEN ui
           ELSE IF c.do = "preview" THEN [ui EXCEPT !.shown = c.of, !.rows = 1]
           ELSE IF ui.rows = 0 THEN ui ELSE [ui EXCEPT !.rows = Windows]
  /\ UNCHANGED <<q, log>>
PreviewFails(c) == c \in net /\ c.do \in {"preview", "more"} /\ net' = net \ {c} /\ UNCHANGED <<ui, q, log>>

(* What is sent replaces categories only where it is applied at all. While the preview of *)
(* these flags is asked for, the panel has no rows.                                       *)
Payload(v) == [v EXCEPT !.flags = IF "apply" \in @ THEN @ ELSE @ \ {"overwrite"}]
Seen == IF ui.panel /\ ui.rows > 0 THEN ui.shown ELSE Nothing
Save ==
  /\ Form /\ ui.draft.text # "blank" /\ ~Pending(net, {"create", "update"})
  /\ Writing(Call(IF ui.over = "edit" THEN "update" ELSE "create", Payload(ui.draft), Seen))
-----------------------------------------------------------------------------
(* An answer closes the dialog of its kind, if it is open by then; a failure leaves it. *)
Closes(c) ==
  CASE c.do \in {"create", "update"} -> {"form", "edit"}
    [] c.do \in {"delete", "import"} -> {c.do}
    [] OTHER -> {}
Answer(c) ==
  /\ c \in net /\ c.do \in Writes
  /\ net' = net \ {c}
  /\ ui' = IF ui.over \in Closes(c) THEN Blank ELSE ui
  /\ UNCHANGED <<q, log>>
Fail(c) == c \in net /\ c.do \in Writes /\ net' = net \ {c} /\ UNCHANGED <<ui, q, log>>

Next ==
  \/ Close \/ AskDelete \/ Delete \/ ApplyAll \/ Export \/ OpenPacks \/ Install \/ ChooseFile
  \/ FileRead \/ Import
  \/ OpenCreate \/ OpenEdit \/ TogglePanel \/ More \/ Save
  \/ \E text \in Texts : EditRule(text)
  \/ \E f \in Flags : SetFlag(f)
  \/ \E c \in net : Previewed(c) \/ PreviewFails(c) \/ Answer(c) \/ Fail(c)

Spec == Init /\ [][Next]_vars
-----------------------------------------------------------------------------
(* The table shows what saving the draft would do, as the panel's comment says: a rule   *)
(* that is saved with rows on screen does, with the same flags, what they were read for, *)
(* though answers of other drafts land meanwhile.                                        *)
SavedAsPreviewed ==
  \A c \in net : c.do \in {"create", "update"} /\ c.saw # Nothing => c.of = Payload(c.saw)
=============================================================================
