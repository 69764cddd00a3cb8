----------------------------- MODULE Pagination -----------------------------
(***************************************************************************)
(* A client walks a list endpoint page by page while rows come and go      *)
(* (customers List; catalog ListProducts, ListMovements, ListInventory).   *)
(*                                                                         *)
(* Rows are ordered by (created_at, id), newest first; a position stands   *)
(* for such a pair, greater is newer.  created_at is taken before the      *)
(* commit, and a search or the low-stock filter may start to match an old  *)
(* row, so a row may appear at any position.  A cursor is a position,      *)
(* written out and parsed back without loss; the client sends the one of   *)
(* the page before.                                                        *)
(***************************************************************************)
EXTENDS Integers, Sequences, FiniteSetsExt, FiniteSets

CONSTANTS
  Last,         (* positions are 1 .. Last                                  *)
  Limits,       (* values of ?limit= the client may ask for                 *)
  DefaultLimit, (* 25 in the code                                           *)
  MaxLimit,     (* 100 in the code                                          *)
  Endpoint      (* "items" or "inventory": which row makes the cursor       *)

ASSUME LimitAssumption ==
  /\ Last \in Nat /\ Limits \subseteq Int
  /\ DefaultLimit \in 1 .. MaxLimit /\ MaxLimit \in Nat
ASSUME EndpointAssumption == Endpoint \in {"items", "inventory"}

Positions == 1 .. Last
NoCursor == 0   (* "": the first page, and no page after the last           *)

VARIABLES
  matching,  (* positions of the rows the query selects now                 *)
  stable,    (* history: those it has selected since the walk began         *)
  asked,     (* the client's limit                                          *)
  cursor,    (* the cursor the client holds                                 *)
  received,  (* the positions it was given, in order                        *)
  walk       (* where the client is: "first", "more" or "finished"          *)

vars == <<matching, stable, asked, cursor, received, walk>>

Init ==
  /\ matching \in SUBSET Positions
  /\ stable = matching
  /\ asked \in Limits
  /\ cursor = NoCursor
  /\ received = <<>>
  /\ walk = "first"

-----------------------------------------------------------------------------
(* limit <= 0 and limit > 100 give the default.                            *)
Limit(n) == IF n <= 0 \/ n > MaxLimit THEN DefaultLimit ELSE n

(* The greatest n elements of S.                                           *)
Top(S, n) == {p \in S : Cardinality({q \in S : q > p}) < n}

Descending(S) == [i \in 1 .. Cardinality(S) |->
                    CHOOSE p \in S : Cardinality({q \in S : q >= p}) = i]

(* Mutants of Selected: the row at the cursor again; offset in place of    *)
(* the cursor's position.                                                  *)
SelectedInclusive(c) == IF c = NoCursor THEN matching ELSE {p \in matching : p <= c}
SelectedByOffset(c) ==
  {p \in matching : Cardinality({q \in matching : q > p}) >= Len(received)}

(* AND (created_at, id) < (cursor).                                        *)
Selected(c) == IF c = NoCursor THEN matching ELSE {p \in matching : p < c}

(* Mutant of Fetch: every page has a next one.                             *)
FetchAlwaysMore ==
  LET page == Top(Selected(cursor), Limit(asked))
  IN  /\ received' = received \o Descending(page)
      /\ cursor' = IF page = {} THEN cursor ELSE Min(page)
      /\ walk' = "more"

(* The query fetches one row more than the page: is there another page?    *)
(* The page ends with its last row; ListInventory makes the cursor of the  *)
(* extra row.                                                              *)
Fetch ==
  LET n == Limit(asked)
      rows == Top(Selected(cursor), n + 1)
      page == Top(rows, n)
  IN  /\ received' = received \o Descending(page)
      /\ \/ /\ Cardinality(rows) > n
            /\ cursor' = Min(IF Endpoint = "inventory" THEN rows ELSE page)
            /\ walk' = "more"
         \/ /\ Cardinality(rows) <= n
            /\ cursor' = NoCursor
            /\ walk' = "finished"

Page ==
  /\ walk # "finished"
  /\ Fetch
  /\ UNCHANGED <<matching, stable, asked>>

(* A row is created, or changes so that the query selects it.              *)
Appear(p) ==
  /\ p \notin matching
  /\ matching' = matching \cup {p}
  /\ stable' = IF walk = "first" THEN stable \cup {p} ELSE stable
  /\ UNCHANGED <<asked, cursor, received, walk>>

(* A row is archived, or no longer matches.                                *)
Vanish(p) ==
  /\ p \in matching
  /\ matching' = matching \ {p}
  /\ stable' = stable \ {p}
  /\ UNCHANGED <<asked, cursor, received, walk>>

Next == Page \/ \E p \in Positions : Appear(p) \/ Vanish(p)

(* The client asks for the next page sooner or later.                      *)
Spec == Init /\ [][Next]_vars /\ WF_vars(Page)

-----------------------------------------------------------------------------
(* Properties.                                                             *)

(* The variables have their types, and the client holds a cursor exactly   *)
(* while there is a page to come (repository.go:352-364).                  *)
TypeOK ==
  /\ matching \subseteq Positions /\ stable \subseteq matching
  /\ asked \in Limits
  /\ cursor \in Positions \cup {NoCursor}
  /\ received \in Seq(Positions)
  /\ walk \in {"first", "more", "finished"}
  /\ walk = "more" <=> cursor # NoCursor

(* No row is given twice, however the rows shift between two pages, and    *)
(* the pages together are in order, newest first.                          *)
InOrderOnce == \A i, j \in 1 .. Len(received) : i < j => received[i] > received[j]

(* Cursor pagination (docs/04-api-contract.md:11) walks the whole list: a  *)
(* row that matched all along is not skipped.                              *)
NothingSkipped ==
  walk = "finished" => \A p \in stable : \E i \in 1 .. Len(received) : received[i] = p

(* The walk ends although rows keep coming: every page but the last has    *)
(* rows, and the cursor only moves down.                                   *)
WalkEnds == <>(walk = "finished")

-----------------------------------------------------------------------------
(* The inductive invariant behind the two, and its parts.                  *)

(* What was given lies at the cursor or above it, so the next page follows *)
(* it; before the first page nothing was given.                            *)
GivenAbove ==
  /\ walk = "first" => received = <<>>
  /\ walk = "more" => \A i \in 1 .. Len(received) : received[i] >= cursor

(* Where the cursor is the last row of the page, every row at the cursor   *)
(* or above it that matched all along has been given.                      *)
GivenDownTo ==
  walk = "more" =>
    \A p \in stable : p >= cursor => \E i \in 1 .. Len(received) : received[i] = p

(* What the code keeps true from page to page.                             *)
IndInv ==
  /\ TypeOK /\ GivenAbove /\ InOrderOnce
  /\ Endpoint = "items" => GivenDownTo /\ NothingSkipped

=============================================================================
