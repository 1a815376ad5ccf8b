---------------------------- MODULE Attachments -----------------------------
(* The files attached to a transaction, in its dialog: uploaded as soon as   *)
(* they are chosen, and shown before they are stored; renamed and deleted in *)
(* place; previewed in a pane of the dialog, which fetches the file first.   *)
(* Two files are followed; how many others there are is left open.           *)
EXTENDS Integers, FiniteSets, QueryCache

CONSTANT MaxWrites          \* bound: writes in a behaviour

VARIABLES ui, q, net, log

vars == <<ui, q, net, log>>

None == "none"
Files == {"invoice", "receipt"}
MaxPreviews == 2            \* bound: previews in flight
Tries == 1..MaxPreviews

(* preview: what the pane shows; last: the file clicked last; confirming: the file whose *)
(* row asks to delete it, deleting: the file last deleted from its row; renaming: a name *)
(* is edited. sent: uploads on screen that are not stored yet. files, listed: what the   *)
(* server holds, and the page.                                                           *)
TypeOK ==
  /\ ui \in [preview : Files \cup {None}, last : Files \cup {None}, confirming : Files \cup {None},
             deleting : Files \cup {None}, renaming : BOOLEAN]
  /\ q \in [files : SUBSET Files, listed : SUBSET Files, sent : 0..MaxWrites, fetch : BOOLEAN]
  /\ net \subseteq [do : {"preview", "rename", "delete", "upload"}, of : Files \cup {None},
                     n : Tries \cup 1..MaxWrites, st : {"sent", "done"}]
  /\ log \in [n : 0..MaxWrites, failed : BOOLEAN]
-----------------------------------------------------------------------------
Call(do, of, n) == [do |-> do, of |-> of, n |-> n, st |-> "sent"]
Previews == {c \in net : c.do = "preview"}

Init ==
  /\ net = {}
  /\ ui = [preview |-> None, last |-> None, confirming |-> None, deleting |-> None, renaming |-> FALSE]
  /\ q = [files |-> Files, listed |-> Files, sent |-> 0, fetch |-> FALSE]
  /\ log = [n |-> 0, failed |-> FALSE]

Changes(v) == ui' = v /\ UNCHANGED <<q, net, log>>
Write(do, of) ==
  /\ log.n < MaxWrites
  /\ net' = net \cup {Call(do, of, log.n + 1)}
  /\ log' = [log EXCEPT !.n = @ + 1]
-----------------------------------------------------------------------------
(* A click on the file that is shown, or the cross of the pane, closes it; a click on *)
(* another has that fetched, and shown if it is still the last that was clicked.      *)
ClosePreview == ui.preview # None /\ Changes([ui EXCEPT !.preview = None])
Preview(f) ==
  /\ f \in q.listed /\ ui.preview # f /\ ui.confirming # f
  /\ \E n \in Tries :
       /\ \A c \in Previews : c.n # n
       /\ \A k \in Tries : k < n => \E c \in Previews : c.n = k
       /\ net' = net \cup {Call("preview", f, n)}
  /\ ui' = [ui EXCEPT !.last = f]
  /\ log' = [log EXCEPT !.failed = FALSE]
  /\ UNCHANGED q
PreviewedAny(c) == TRUE                \* broken: shown whichever was clicked since
StillAsked(c) == ui.last = c.of
Previewed(c) ==
  /\ c \in Previews
  /\ net' = net \ {c}
  /\ ui' = IF StillAsked(c) THEN [ui EXCEPT !.preview = c.of] ELSE ui
  /\ UNCHANGED <<q, log>>
PreviewFails(c) ==
  /\ c \in Previews
  /\ net' = net \ {c}
  /\ log' = [log EXCEPT !.failed = TRUE]
  /\ UNCHANGED <<ui, q>>
-----------------------------------------------------------------------------
(* Files are dropped while what is shown, sent ones included, is below a limit. *)
Upload ==
  /\ Write("upload", None)
  /\ q' = [q EXCEPT !.sent = @ + 1]
  /\ UNCHANGED ui
StartRename(f) == f \in q.listed /\ Changes([ui EXCEPT !.renaming = TRUE, !.confirming = None])
(* The field is submitted when it is left, too; an empty name only closes it. *)
Rename == ui.renaming /\ Write("rename", None) /\ UNCHANGED <<ui, q>>
CancelRename == ui.renaming /\ Changes([ui EXCEPT !.renaming = FALSE])
AskDelete(f) == f \in q.listed /\ Changes([ui EXCEPT !.confirming = f])
CancelDelete == ui.confirming # None /\ Changes([ui EXCEPT !.confirming = None])
Delete ==
  /\ ui.confirming # None /\ ui.deleting # ui.confirming
  /\ Write("delete", ui.confirming)
  /\ ui' = [ui EXCEPT !.deleting = ui.confirming]
  /\ UNCHANGED q

(* The server refuses what is there no more. *)
Accepted(c) == c.do = "delete" => c.of \in q.files
Serve(c) ==
  /\ c \in net \ Previews /\ c.st = "sent" /\ Accepted(c)
  /\ net' = Served(net, c)
  /\ q' = IF c.do = "delete" THEN [q EXCEPT !.files = @ \ {c.of}] ELSE q
  /\ UNCHANGED <<ui, log>>
(* The row of an upload goes with its answer, or its failure, and no other answer takes *)
(* one away.                                                                            *)
UnsentAny(c) == 1                      \* broken: any answer does
Unsent(c) == IF c.do = "upload" THEN 1 ELSE 0
(* A deletion closes the pane if it shows the file. *)
Answer(c) ==
  /\ c \in net \ Previews /\ c.st = "done"
  /\ net' = net \ {c}
  /\ q' = [q EXCEPT !.fetch = TRUE, !.sent = @ - Unsent(c)]
  /\ ui' = CASE c.do = "rename" -> [ui EXCEPT !.renaming = FALSE]
             [] c.do = "delete" -> [ui EXCEPT !.confirming = None, !.deleting = None,
                                    !.preview = IF @ = c.of THEN None ELSE @]
             [] OTHER -> ui
  /\ UNCHANGED log
Fail(c) ==
  /\ c \in net \ Previews
  /\ net' = net \ {c}
  /\ q' = [q EXCEPT !.sent = @ - Unsent(c)]
  /\ ui' = IF c.do = "delete" THEN [ui EXCEPT !.deleting = None] ELSE ui
  /\ UNCHANGED log
Fetched_ ==
  /\ q.fetch
  /\ q' = [q EXCEPT !.fetch = FALSE, !.listed = q.files]
  /\ UNCHANGED <<ui, net, log>>

Next ==
  \/ ClosePreview \/ Upload \/ Rename \/ CancelRename \/ CancelDelete \/ Delete \/ Fetched_
  \/ \E f \in Files : Preview(f) \/ StartRename(f) \/ AskDelete(f)
  \/ \E c \in net : Previewed(c) \/ PreviewFails(c) \/ Serve(c) \/ Answer(c) \/ Fail(c)

Spec == Init /\ [][Next]_vars
-----------------------------------------------------------------------------
(* Once no file is being fetched the pane shows the one clicked last, or none, though the *)
(* files arrive in any order; unless the last one could not be had.                       *)
PreviewIsLastAsked == Previews = {} /\ ~log.failed => ui.preview \in {ui.last, None}
=============================================================================
