------------------------------- MODULE Pages --------------------------------
(* The pages of the browser, each a module of its own: a behaviour is of one *)
(* page, any of them, with the dialogs over it, its requests, and what the   *)
(* server holds of it. Pages share nothing but the cache of their queries,   *)
(* which a page asks for again when it opens.                                *)
EXTENDS Naturals

CONSTANT MaxWrites          \* bound: writes in a behaviour

ASSUME MaxWritesAssumption == MaxWrites \in Nat

VARIABLES
  at,                       \* the page
  ui, q, net, log           \* of the page: see its module

vars == <<at, ui, q, net, log>>

(* Two pages come with the modules of their proofs, which PagesProofs cites. *)
Asset        == INSTANCE AssetForm
Assets       == INSTANCE AssetLists
Import       == INSTANCE ImportPage
Transactions == INSTANCE TransactionsList
Dialog       == INSTANCE TransactionDialogProofs
Form         == INSTANCE TransactionForm
Card         == INSTANCE CardWindow
Accounts     == INSTANCE AccountsPage
Groups       == INSTANCE GroupPagesProofs
Payees       == INSTANCE PayeesPage
Rules        == INSTANCE RulesPage
Categories   == INSTANCE CategoriesPage
Chat         == INSTANCE AssistantChat
Files        == INSTANCE Attachments
Planning     == INSTANCE PlanningPages
Settings     == INSTANCE WorkspaceSettings
-----------------------------------------------------------------------------
Is(page) == at = page

Init ==
  \/ Is("asset")          /\ Asset!Init
  \/ Is("assets")         /\ Assets!Init
  \/ Is("import")         /\ Import!Init
  \/ Is("transactions")   /\ Transactions!Init
  \/ Is("dialog")         /\ Dialog!Init
  \/ Is("form")           /\ Form!Init
  \/ Is("card")           /\ Card!Init
  \/ Is("accounts")       /\ Accounts!Init
  \/ Is("groups")         /\ Groups!Init
  \/ Is("payees")         /\ Payees!Init
  \/ Is("rules")          /\ Rules!Init
  \/ Is("categories")     /\ Categories!Init
  \/ Is("chat")           /\ Chat!Init
  \/ Is("files")          /\ Files!Init
  \/ Is("planning")       /\ Planning!Init
  \/ Is("settings")       /\ Settings!Init

Next ==
  /\ UNCHANGED at
  /\ \/ Is("asset")          /\ Asset!Next
     \/ Is("assets")         /\ Assets!Next
     \/ Is("import")         /\ Import!Next
     \/ Is("transactions")   /\ Transactions!Next
     \/ Is("dialog")         /\ Dialog!Next
     \/ Is("form")           /\ Form!Next
     \/ Is("card")           /\ Card!Next
     \/ Is("accounts")       /\ Accounts!Next
     \/ Is("groups")         /\ Groups!Next
     \/ Is("payees")         /\ Payees!Next
     \/ Is("rules")          /\ Rules!Next
     \/ Is("categories")     /\ Categories!Next
     \/ Is("chat")           /\ Chat!Next
     \/ Is("files")          /\ Files!Next
     \/ Is("planning")       /\ Planning!Next
     \/ Is("settings")       /\ Settings!Next

Spec == Init /\ [][Next]_vars
-----------------------------------------------------------------------------
(* Each page's state has its types. *)
TypeOK ==
  /\ Is("asset")          => Asset!TypeOK
  /\ Is("assets")         => Assets!TypeOK
  /\ Is("import")         => Import!TypeOK
  /\ Is("transactions")   => Transactions!TypeOK
  /\ Is("dialog")         => Dialog!TypeOK
  /\ Is("form")           => Form!TypeOK
  /\ Is("card")           => Card!TypeOK
  /\ Is("accounts")       => Accounts!TypeOK
  /\ Is("groups")         => Groups!TypeOK
  /\ Is("payees")         => Payees!TypeOK
  /\ Is("rules")          => Rules!TypeOK
  /\ Is("categories")     => Categories!TypeOK
  /\ Is("chat")           => Chat!TypeOK
  /\ Is("files")          => Files!TypeOK
  /\ Is("planning")       => Planning!TypeOK
  /\ Is("settings")       => Settings!TypeOK

(* The properties of the pages; each states its exceptions in its own module. *)

(* An asset's form saves into the asset whose fields it shows. *)
FormIsOfItsAsset == Is("asset") => Asset!FormIsOfItsAsset

(* The orders on screen were counted for the wallet they would be imported into. *)
CountsDescribeTheImport == Is("import") => Import!CountsDescribeTheImport

(* Pages end up showing what the server holds. *)
ListsFreshWhenQuiet ==
  /\ Is("assets") => Assets!ListsFreshWhenQuiet
  /\ Is("import") => Import!ListsFreshWhenQuiet
  /\ Is("planning") => Planning!ListsFreshWhenQuiet

(* A bulk write names rows that are on the page. *)
SelectionIsOnThePage == Is("transactions") => Transactions!SelectionIsOnThePage

(* A transaction is sent the fields of the form that was filled from it. *)
EditsReachTheirRow == Is("dialog") => Dialog!EditsReachTheirRow

(* A bill, goal, budget or collection is sent the fields that were filled from it. *)
PlansReachTheirRow == Is("planning") => Planning!PlansReachTheirRow

(* A new transaction starts from another one only when that was duplicated. *)
DraftsAreAskedFor == Is("dialog") => Dialog!DraftsAreAskedFor

(* What one form enters is stored once, however often it is sent. *)
StoredOnce == Is("form") => Form!StoredOnce

(* A save changes neither the toggle beside it nor a split that was left alone. *)
SaveChangesNothingElse == Is("form") => Form!SaveChangesNothingElse

(* No answer replaces the window of dates that the user chose. *)
ChosenWindowStays == Is("card") => Card!ChosenWindowStays

(* The page of a card opens on the bill that is due next. *)
OpensOnTheBillDue == Is("card") => Card!OpensOnTheBillDue

(* A step back goes back, and a step on goes on. *)
StepsGoTheirWay == [][Is("card") => Card!StepGoesItsWay]_vars

(* The banks offered are of the country they are asked for with. *)
BanksAreOfTheCountry == Is("accounts") => Accounts!BanksAreOfTheCountry

(* A debt in a group is not settled beyond what it is. *)
NothingOverpaid == Is("groups") => Groups!NothingOverpaid

(* A settlement that links a transaction is of its amount. *)
LinkedAmountsAgree == Is("groups") => Groups!LinkedAmountsAgree

(* The payees merged or deleted together are on the page. *)
SelectedAreListed == Is("payees") => Payees!SelectedAreListed

(* A rule does when saved what its preview on screen says. *)
SavedAsPreviewed == Is("rules") => Rules!SavedAsPreviewed

(* A category that rules assign is not hidden without asking. *)
HidesAreAsked == Is("categories") => Categories!HidesAreAsked

(* The bubble of a message that is being answered is on screen. *)
AnswerIsShown == Is("chat") => Chat!AnswerIsShown

(* A proposal of the agent is applied once. *)
AppliedOnce == Is("chat") => Chat!AppliedOnce

(* The pane shows the file clicked last. *)
PreviewIsLastAsked == Is("files") => Files!PreviewIsLastAsked

(* What is written to a workspace was entered for it. *)
WritesReachTheirWorkspace == Is("settings") => Settings!WritesReachTheirWorkspace
=============================================================================
