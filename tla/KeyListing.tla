----------------------------- MODULE KeyListing -----------------------------
(***************************************************************************)
(* The two listings of all keys: GET /api/list (Storage::get_all_requests) *)
(* and the dashboard GET /ops/auth.  Neither is one command: each reads    *)
(* the three state sets one after another, while other handlers move keys. *)
(* What those do is Update of AuthStore, one command at a time             *)
(* (RecordsChangeByCommands of AuthRequirements).  Listings change         *)
(* nothing, so one listing at a time shows all that one can find.          *)
(* A finished listing stays until the next one begins: it is what an       *)
(* operator's browser shows.                                               *)
(***************************************************************************)
EXTENDS AuthStore

VARIABLES
  listing,  \* the listing being made or made last: how far it is, its rows
  since     \* since[k]: history: the states k was in since the listing began

vars == <<hash, index, listing, since>>

Routes == {"api_list", "ops_auth"}

\* The order in which the sets are read.
Order(route) == IF route = "api_list" THEN <<"pending", "authorized", "blocked">>
                                      ELSE <<"authorized", "pending", "blocked">>

Rows == Keys \X States

Positions == 1..4
Tries == {0, 1}

\* `at` is the set to read next, 4 when there is none; `rows` says how often the
\* Vec of rows has each row; `empty` holds the sections of the dashboard that an
\* error left empty.
Listings == [route : Routes, at : Positions, tries : Tries, rows : [Rows -> Nat],
             empty : SUBSET States, failed : BOOLEAN]

NoRows == [row \in Rows |-> 0]

\* result.push(row), for each of new.
Pushed(rows, new) ==
  [row \in Rows |-> IF row \in new THEN rows[row] + 1 ELSE rows[row]]

Failed(route) == [route |-> route, at |-> 4, tries |-> 0, rows |-> NoRows,
                  empty |-> {}, failed |-> TRUE]

TypeOK == /\ StoreTypeOK
          /\ listing \in Listings
          /\ since \in [Keys -> SUBSET (States \cup {Nil})]

Init == /\ StoreInit
        /\ listing = Failed("api_list")
        /\ since = [k \in Keys |-> {Nil}]

Reading == listing.at < 4

\* The set to be read.
Section == Order(listing.route)[listing.at]

-----------------------------------------------------------------------------

\* Mutant: the result of the listing before is not cleared.
Begin_KeepsRows(route) ==
  /\ ~Reading
  /\ listing' = [Failed(route) EXCEPT !.at = 1, !.rows = listing.rows,
                                      !.failed = FALSE]
  /\ since' = [k \in Keys |-> {hash[k].state}]
  /\ UNCHANGED store

Begin(route) ==
  /\ ~Reading
  /\ listing' = [Failed(route) EXCEPT !.at = 1, !.failed = FALSE]
  /\ since' = [k \in Keys |-> {hash[k].state}]
  /\ UNCHANGED store

\* The rows one set contributes: SMEMBERS for the API, and for the dashboard
\* get_all_by_state.lua, which leaves out members whose hash has no `json`.
RowsIn(route, s) == {<<k, s>> : k \in {m \in index[s] :
                                 route = "ops_auth" => hash[m].json # Nil}}

ReadSet ==
  /\ Reading
  /\ listing' = [listing EXCEPT
                   !.at = @ + 1,
                   !.tries = IF listing.route = "ops_auth" THEN 0 ELSE @,
                   !.rows = Pushed(@, RowsIn(listing.route, Section))]
  /\ UNCHANGED <<store, since>>

\* Mutant: the retry starts again with the rows it has.
RestartList_KeepsRows == [listing EXCEPT !.tries = 1, !.at = 1]

\* get_all_requests reads its three sets in one with_connection, so a dropped
\* connection starts it again with an empty result; a second one fails it.
RestartList == [listing EXCEPT !.tries = 1, !.rows = NoRows, !.at = 1]

\* The dashboard retries each set by itself and shows a set it cannot read as
\* empty (unwrap_or_default).
RetrySection == [listing EXCEPT !.tries = 1]

SkipSection == [listing EXCEPT !.at = @ + 1, !.tries = 0,
                               !.empty = @ \cup {Section}]

Retried == IF listing.route = "api_list" THEN RestartList ELSE RetrySection

GivenUp == IF listing.route = "api_list" THEN Failed("api_list") ELSE SkipSection

\* Mutant: a second retry.
Drop_Twice ==
  /\ Reading
  /\ listing' = IF listing.tries < 2
                  THEN [Retried EXCEPT !.tries = listing.tries + 1]
                  ELSE GivenUp
  /\ UNCHANGED <<store, since>>

Drop == /\ Reading
        /\ listing' = IF listing.tries = 0 THEN Retried ELSE GivenUp
        /\ UNCHANGED <<store, since>>

\* An error that is not retried.
Fail == /\ Reading
        /\ listing' = GivenUp
        /\ UNCHANGED <<store, since>>

\* Any other handler's command.
Change(k) ==
  /\ Update(k)
  /\ since' = [since EXCEPT ![k] = @ \cup {hash'[k].state}]
  /\ UNCHANGED listing

Next == \/ \E route \in Routes : Begin(route)
        \/ ReadSet
        \/ Drop
        \/ Fail
        \/ \E k \in Keys : Change(k)

Spec == Init /\ [][Next]_vars

-----------------------------------------------------------------------------

Finished == ~Reading /\ ~listing.failed

\* How often k is listed in state s.
Times(k, s) == listing.rows[<<k, s>>]

\* A row was true while the listing was being made: neither a set that lags
\* behind its hashes nor a row kept from another listing shows up.
RowsWereTrue == \A k \in Keys, s \in States : Times(k, s) > 0 => s \in since[k]

\* A key that stayed in one state during a finished listing is listed in that
\* state once and in no other, whatever was read before a retry, unless the
\* dashboard could not read that section.
SettledKeysAreListed ==
  \A k \in Keys, s \in States :
    Finished /\ since[k] = {s} /\ s \notin listing.empty
      => \A t \in States : Times(k, t) = IF t = s THEN 1 ELSE 0
=============================================================================
