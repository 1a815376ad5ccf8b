----------------------------- MODULE QueryCache -----------------------------
(* What the pages use of their query library: a cached answer per key, the   *)
(* fetches under way, and mutations that are sent, served and answered.      *)
(*                                                                           *)
(* The keys of a page do not depend on each other, so a behaviour follows    *)
(* one of them, any of them, chosen when it starts. It is old when what the  *)
(* page shows for it is not what the server holds any more. A fetch is dirty *)
(* when something was written since it was sent: its answer may have been    *)
(* read before or after the write. To ask again for a key that is being      *)
(* fetched drops the fetch under way, and the new one is clean. A list that  *)
(* has grown stale is also asked for when its page is looked at again, if no *)
(* fetch of it is under way; and a fetch can fail.                           *)

Caches(keys) == [key : keys, old : BOOLEAN, fetch : {"none", "clean", "dirty"}]
Settled(keys) == [key : keys, old : {FALSE}, fetch : {"none"}]

Wrote(q, keys) ==
  IF q.key \notin keys THEN q
  ELSE [q EXCEPT !.old = TRUE, !.fetch = IF @ = "none" THEN @ ELSE "dirty"]
Refetch(q, keys) == IF q.key \in keys THEN [q EXCEPT !.fetch = "clean"] ELSE q
(* The caches that the answer to the fetch under way can leave. *)
Fetched(q) ==
  IF q.fetch = "none" THEN {}
  ELSE [key : {q.key}, old : IF q.fetch = "dirty" THEN BOOLEAN ELSE {FALSE}, fetch : {"none"}]

Revisited(q) == [q EXCEPT !.fetch = "clean"]
Dropped(q) == [q EXCEPT !.fetch = "none"]

(* A mutation: sent by the page, served by the server, then answered. *)
Sent(do, of) == [do |-> do, of |-> of, st |-> "sent"]
Served(net, c) == (net \ {c}) \cup {[c EXCEPT !.st = "done"]}
Pending(net, kinds) == \E c \in net : c.do \in kinds
=============================================================================
