-------------------------- MODULE OpsConsoleProofs --------------------------
(***************************************************************************)
(* Proofs about KeyListing and OpsConsole, for every set of keys and       *)
(* payloads, every MaxPending and every bound on the forms on their way.   *)
(***************************************************************************)
EXTENDS OpsConsole, TLAPS

-----------------------------------------------------------------------------
(***************************************************************************)
(* The records: no command leaves half a record with a state, so the sets  *)
(* and the hashes agree and a hash with a state has its JSON.              *)
(***************************************************************************)

Agree == \A k \in Keys :
           /\ hash[k].state # Nil => hash[k].json # Nil
           /\ \A s \in States : k \in index[s] <=> hash[k].state = s

\* A state is no absent one, nor is a registration's JSON.
LEMMA NilIsNoState == Nil \notin States /\ Nil \notin Json
BY NilAssumption DEF Json, States

\* What a command on one key keeps: types, agreement and the other keys.
LEMMA CommandEffect ==
  ASSUME StoreTypeOK, Agree, NEW k \in Keys, NEW reply,
         \/ \E d \in Payloads : add_pending(k, d, reply)
         \/ \E from, to \in States : transition(k, from, to, reply)
         \/ delete(k, reply)
         \/ \E claim \in Claims : set_verified(k, claim, reply)
         \/ \E json \in Json : hset_json(k, json)
  PROVE  /\ StoreTypeOK'
         /\ Agree'
         /\ \A j \in Keys : j # k => hash'[j] = hash[j]
<1> USE NilIsNoState DEF Agree, StoreTypeOK, Hashes
<1>1. ASSUME NEW d \in Payloads, add_pending(k, d, reply)
      PROVE  /\ StoreTypeOK' /\ Agree'
             /\ \A j \in Keys : j # k => hash'[j] = hash[j]
  <2>1. CASE UNCHANGED store
    BY <2>1 DEF store
  <2>2. CASE ~UNCHANGED store
    <3> DEFINE json == [payload |-> d, token |-> Nil]
    <3>1. json \in Json /\ json # Nil
      BY DEF Json
    <3>2. /\ hash[k] = NoHash
          /\ hash' = [hash EXCEPT ![k].state = "pending", ![k].json = json]
          /\ index' = [index EXCEPT !["pending"] = @ \cup {k}]
      BY <1>1, <2>2 DEF add_pending, Exists, Sadd
    <3> HIDE DEF json
    <3> QED
      BY <3>1, <3>2 DEF NoHash, States
  <2> QED
    BY <2>1, <2>2
<1>2. ASSUME NEW from \in States, NEW to \in States,
             transition(k, from, to, reply)
      PROVE  /\ StoreTypeOK' /\ Agree'
             /\ \A j \in Keys : j # k => hash'[j] = hash[j]
  <2>1. CASE UNCHANGED store
    BY <2>1 DEF store
  <2>2. CASE ~UNCHANGED store
    <3>1. /\ hash[k].state = from
          /\ hash' = [hash EXCEPT ![k].state = to]
          /\ index' = Sadd(Srem(index, from, k), to, k)
      BY <1>2, <2>2 DEF transition
    <3>2. /\ hash'[k].state = to /\ hash'[k].json = hash[k].json
          /\ \A j \in Keys : j # k => hash'[j] = hash[j]
      BY <3>1
    <3>3. StoreTypeOK'
      BY <3>1 DEF Sadd, Srem
    <3>4. \A j \in Keys, s \in States :
            j \in index'[s] <=> IF j = k THEN s = to ELSE j \in index[s]
      BY <3>1 DEF Sadd, Srem
    <3> QED
      BY <3>1, <3>2, <3>3, <3>4
  <2> QED
    BY <2>1, <2>2
<1>3. ASSUME delete(k, reply)
      PROVE  /\ StoreTypeOK' /\ Agree'
             /\ \A j \in Keys : j # k => hash'[j] = hash[j]
  BY <1>3 DEF delete, NoHash, Srem
<1>4. ASSUME NEW claim \in Claims, set_verified(k, claim, reply)
      PROVE  /\ StoreTypeOK' /\ Agree'
             /\ \A j \in Keys : j # k => hash'[j] = hash[j]
  BY <1>4 DEF set_verified, store
<1>5. ASSUME NEW json \in Json, hset_json(k, json)
      PROVE  /\ StoreTypeOK' /\ Agree'
             /\ \A j \in Keys : j # k => hash'[j] = hash[j]
  <2>1. json # Nil
    OBVIOUS
  <2>2. /\ hash' = [hash EXCEPT ![k].json = json]
        /\ UNCHANGED index
    BY <1>5 DEF hset_json
  <2> QED
    BY <2>1, <2>2
<1> QED
  BY <1>1, <1>2, <1>3, <1>4, <1>5

-----------------------------------------------------------------------------
(***************************************************************************)
(* The listings.                                                           *)
(***************************************************************************)

\* The set of s has been read by the listing being made.
HasBeenRead(s) == \E i \in 1..3 : i < listing.at /\ Order(listing.route)[i] = s

SinceHasNow == \A k \in Keys : hash[k].state \in since[k]

\* A key that stayed in a state whose set has been read is listed already.
ReadKeysAreListed ==
  \A k \in Keys, s \in States :
    /\ ~listing.failed
    /\ HasBeenRead(s)
    /\ since[k] = {s}
    /\ s \notin listing.empty
    => Times(k, s) > 0

\* A set that has not been read has no rows yet, and no row comes twice.
NoRowTwice ==
  \A k \in Keys, s \in States :
    /\ Times(k, s) <= 1
    /\ Times(k, s) > 0 => HasBeenRead(s)

ListingInv == /\ TypeOK
              /\ Agree
              /\ SinceHasNow
              /\ RowsWereTrue
              /\ ReadKeysAreListed
              /\ NoRowTwice

\* Either route reads each of the three sets once.
LEMMA OrderCoversStates ==
  ASSUME NEW route \in Routes
  PROVE  /\ \A i \in 1..3 : Order(route)[i] \in States
         /\ \A s \in States : \E i \in 1..3 : Order(route)[i] = s
         /\ \A i, j \in 1..3 : Order(route)[i] = Order(route)[j] => i = j
<1>1. CASE route = "api_list"
  BY <1>1 DEF Order, States
<1>2. CASE route = "ops_auth"
  BY <1>2 DEF Order, States
<1> QED
  BY <1>1, <1>2 DEF Routes

\* The numbers a listing's fields take.
LEMMA Numbers == 1 \in Positions /\ 4 \in Positions /\ 0 \in Tries /\ 1 \in Tries
BY DEF Positions, Tries

\* A listing without rows lists no key.
LEMMA RowCounts ==
  /\ NoRows \in [Rows -> Nat]
  /\ \A k \in Keys, s \in States : <<k, s>> \in Rows /\ NoRows[<<k, s>>] = 0
BY DEF NoRows, Rows

\* Rows that are pushed are listed once more.
LEMMA PushedRows ==
  ASSUME NEW rows \in [Rows -> Nat], NEW new
  PROVE  /\ Pushed(rows, new) \in [Rows -> Nat]
         /\ \A row \in Rows :
              Pushed(rows, new)[row] = IF row \in new THEN rows[row] + 1
                                                      ELSE rows[row]
BY DEF Pushed

\* With no rows nothing is listed.
LEMMA NothingListed ==
  ASSUME listing.rows = NoRows
  PROVE  RowsWereTrue /\ NoRowTwice
<1>1. \A k \in Keys, s \in States : Times(k, s) = 0
  BY RowCounts DEF Times
<1> QED
  BY <1>1 DEF RowsWereTrue, NoRowTwice

\* A listing's fields, and those of one that failed.
LEMMA ListingFields ==
  ASSUME TypeOK
  PROVE  /\ listing.route \in Routes /\ listing.at \in 1..4
         /\ listing.tries \in Tries /\ listing.rows \in [Rows -> Nat]
         /\ listing.empty \in SUBSET States /\ listing.failed \in BOOLEAN
         /\ Reading => listing.at \in 1..3 /\ Section \in States
         /\ \A route \in Routes : Failed(route) \in Listings
         /\ \A k \in Keys, s \in States : Times(k, s) \in Nat
<1>1. /\ listing.route \in Routes /\ listing.at \in 1..4
      /\ listing.tries \in Tries /\ listing.rows \in [Rows -> Nat]
      /\ listing.empty \in SUBSET States /\ listing.failed \in BOOLEAN
  BY DEF TypeOK, Listings, Positions
<1>2. Reading => listing.at \in 1..3
  BY <1>1 DEF Reading
<1>3. Reading => Section \in States
  BY <1>1, <1>2, OrderCoversStates DEF Section
<1>4. \A route \in Routes : Failed(route) \in Listings
  BY Numbers, RowCounts DEF Failed, Listings
<1>5. \A k \in Keys, s \in States : Times(k, s) \in Nat
  BY <1>1, RowCounts DEF Times
<1> QED
  BY <1>1, <1>2, <1>3, <1>4, <1>5

\* A finished listing has read every set.
LEMMA FinishedHasReadAll ==
  ASSUME TypeOK, ~Reading, NEW s \in States
  PROVE  HasBeenRead(s)
<1>1. listing.at = 4 /\ listing.route \in Routes
  BY ListingFields DEF Reading
<1> QED
  BY <1>1, OrderCoversStates DEF HasBeenRead

\* A listing starts with nothing read and nothing listed.
LEMMA BeginKeepsListing ==
  ASSUME ListingInv, NEW route \in Routes, Begin(route)
  PROVE  ListingInv'
<1>1. /\ listing'.at = 1 /\ listing'.rows = NoRows
      /\ listing' \in Listings
  BY Numbers, RowCounts DEF Begin, Failed, Listings
<1>2. TypeOK' /\ Agree'
  BY <1>1 DEF Begin, ListingInv, TypeOK, StoreTypeOK, Hashes, Agree, store
<1>3. SinceHasNow'
  BY DEF Begin, SinceHasNow, store
<1>4. RowsWereTrue' /\ NoRowTwice'
  <2>1. \A k \in Keys, s \in States : Times(k, s)' = 0
    BY <1>1, RowCounts DEF Times
  <2> QED
    BY <2>1 DEF RowsWereTrue, NoRowTwice
<1>5. ReadKeysAreListed'
  BY <1>1 DEF ReadKeysAreListed, HasBeenRead
<1> QED
  BY <1>2, <1>3, <1>4, <1>5 DEF ListingInv

\* Reading a set lists what is in it now; a key that stayed there is.
LEMMA ReadSetKeepsListing ==
  ASSUME ListingInv, ReadSet
  PROVE  ListingInv'
<1> DEFINE new == RowsIn(listing.route, Section)
<1>1. Section \in States /\ listing.at \in 1..3
  BY ListingFields DEF ReadSet, ListingInv
<1>2. /\ listing'.at = listing.at + 1
      /\ listing'.rows = Pushed(listing.rows, new)
      /\ listing'.route = listing.route /\ listing'.empty = listing.empty
      /\ listing'.failed = listing.failed
      /\ listing'.tries = IF listing.route = "ops_auth" THEN 0 ELSE listing.tries
  BY DEF ReadSet, ListingInv, TypeOK, Listings
<1>3. \A k \in Keys, s \in States :
        /\ <<k, s>> \in new => s = Section /\ k \in index[Section]
        /\ s = Section /\ k \in index[Section] /\ hash[k].json # Nil
             => <<k, s>> \in new
  BY DEF RowsIn
<1>4. \A k \in Keys, s \in States :
        /\ Times(k, s)' = IF <<k, s>> \in new THEN Times(k, s) + 1
                                              ELSE Times(k, s)
        /\ Times(k, s) \in Nat
  <2> HIDE DEF new
  <2>1. listing.rows \in [Rows -> Nat]
    BY ListingFields DEF ListingInv
  <2>2. \A k \in Keys, s \in States : Times(k, s) \in Nat
    BY ListingFields DEF ListingInv
  <2>3. \A k \in Keys, s \in States :
          listing'.rows[<<k, s>>] = IF <<k, s>> \in new
                                      THEN listing.rows[<<k, s>>] + 1
                                      ELSE listing.rows[<<k, s>>]
    <3>1. \A row \in Rows :
            listing'.rows[row] = IF row \in new THEN listing.rows[row] + 1
                                                ELSE listing.rows[row]
      BY <1>2, <2>1, PushedRows
    <3> QED
      BY <3>1, RowCounts
  <2> QED
    BY <2>2, <2>3 DEF Times
<1>5. TypeOK'
  <2> DEFINE tries == IF listing.route = "ops_auth" THEN 0 ELSE listing.tries
             rows == Pushed(listing.rows, new)
  <2>1. rows \in [Rows -> Nat]
    <3> HIDE DEF new
    <3> QED
      BY ListingFields, PushedRows DEF ListingInv
  <2>2. listing.at + 1 \in Positions /\ tries \in Tries
    BY <1>1, ListingFields, Numbers DEF ListingInv, Positions
  <2>3. listing' = [listing EXCEPT !.at = @ + 1, !.tries = tries, !.rows = rows]
    BY DEF ReadSet
  <2> HIDE DEF new, tries, rows
  <2>4. listing' \in Listings
    BY <2>1, <2>2, <2>3 DEF ListingInv, TypeOK, Listings
  <2> QED
    BY <2>4 DEF ReadSet, ListingInv, TypeOK, StoreTypeOK, store
<1>6. Agree' /\ SinceHasNow' /\ UNCHANGED since
  BY DEF ReadSet, ListingInv, Agree, SinceHasNow, store
<1>7. \A s \in States : HasBeenRead(s)' <=> HasBeenRead(s) \/ s = Section
  BY <1>1, <1>2 DEF HasBeenRead, Section
<1>8. ~HasBeenRead(Section)
  BY <1>1, ListingFields, OrderCoversStates DEF HasBeenRead, Section, ListingInv
<1> HIDE DEF new
<1>9. RowsWereTrue'
  <2> SUFFICES ASSUME NEW k \in Keys, NEW s \in States, Times(k, s)' > 0
               PROVE  s \in since[k]
    BY <1>6 DEF RowsWereTrue
  <2>1. CASE <<k, s>> \in new
    BY <1>3, <2>1 DEF ListingInv, Agree, SinceHasNow
  <2>2. CASE <<k, s>> \notin new
    BY <1>4, <2>2 DEF ListingInv, RowsWereTrue
  <2> QED
    BY <2>1, <2>2
<1>10. ReadKeysAreListed'
  <2> SUFFICES ASSUME NEW k \in Keys, NEW s \in States,
                      ~listing'.failed, HasBeenRead(s)', since'[k] = {s},
                      s \notin listing'.empty
               PROVE  Times(k, s)' > 0
    BY DEF ReadKeysAreListed
  <2>1. since[k] = {s} /\ ~listing.failed /\ s \notin listing.empty
    BY <1>2, <1>6
  <2>2. CASE HasBeenRead(s)
    <3>1. Times(k, s) > 0 /\ Times(k, s) \in Nat
      BY <1>4, <2>1, <2>2 DEF ListingInv, ReadKeysAreListed
    <3>2. Times(k, s)' \in {Times(k, s), Times(k, s) + 1}
      BY <1>4
    <3> QED
      BY <3>1, <3>2
  <2>3. CASE s = Section
    <3>1. hash[k].state = s /\ hash[k].json # Nil
      BY <2>1, NilIsNoState DEF ListingInv, Agree, SinceHasNow
    <3>2. <<k, s>> \in new
      BY <1>3, <2>3, <3>1 DEF ListingInv, Agree
    <3>3. Times(k, s)' = Times(k, s) + 1 /\ Times(k, s) \in Nat
      BY <1>4, <3>2
    <3> QED
      BY <3>3
  <2> QED
    BY <1>7, <2>2, <2>3
<1>11. NoRowTwice'
  <2> SUFFICES ASSUME NEW k \in Keys, NEW s \in States
               PROVE  /\ Times(k, s)' <= 1
                      /\ Times(k, s)' > 0 => HasBeenRead(s)'
    BY DEF NoRowTwice
  <2>1. Times(k, s) <= 1 /\ (Times(k, s) > 0 => HasBeenRead(s))
    BY DEF ListingInv, NoRowTwice
  <2>2. CASE <<k, s>> \in new
    <3>1. s = Section
      BY <1>3, <2>2
    <3>2. ~HasBeenRead(s) /\ Times(k, s) \in Nat
      BY <1>4, <1>8, <3>1
    <3>3. Times(k, s) = 0
      BY <2>1, <3>2
    <3>4. Times(k, s)' = 1
      BY <1>4, <2>2, <3>3
    <3> QED
      BY <1>7, <3>1, <3>4
  <2>3. CASE <<k, s>> \notin new
    <3>1. Times(k, s)' = Times(k, s)
      BY <1>4, <2>3
    <3> QED
      BY <1>7, <2>1, <3>1
  <2> QED
    BY <2>2, <2>3
<1> QED
  BY <1>5, <1>6, <1>9, <1>10, <1>11 DEF ListingInv

\* Starting again forgets the rows with the sets that were read; a section given
\* up counts as empty.
LEMMA ErrorKeepsListing ==
  ASSUME ListingInv, Drop \/ Fail
  PROVE  ListingInv'
<1>0. listing' = Retried \/ listing' = GivenUp
  BY DEF Drop, Fail
<1>1. Section \in States /\ listing.at \in 1..3 /\ UNCHANGED <<store, since>>
  BY ListingFields DEF Drop, Fail, ListingInv
<1>2. \/ listing'.at = 1 /\ listing'.rows = NoRows
      \/ listing'.failed /\ listing'.rows = NoRows
      \/ /\ listing'.at = listing.at /\ listing'.route = listing.route
         /\ listing'.rows = listing.rows /\ listing'.empty = listing.empty
         /\ listing'.failed = listing.failed
      \/ /\ listing'.at = listing.at + 1 /\ listing'.route = listing.route
         /\ listing'.rows = listing.rows
         /\ listing'.empty = listing.empty \cup {Section}
         /\ listing'.failed = listing.failed
  <2>1. CASE listing' = RestartList
    BY <2>1 DEF RestartList, ListingInv, TypeOK, Listings
  <2>2. CASE listing' = RetrySection
    BY <2>2 DEF RetrySection, ListingInv, TypeOK, Listings
  <2>3. CASE listing' = Failed("api_list")
    BY <2>3 DEF Failed
  <2>4. CASE listing' = SkipSection
    BY <2>4 DEF SkipSection, ListingInv, TypeOK, Listings
  <2> QED
    BY <1>0, <2>1, <2>2, <2>3, <2>4 DEF Retried, GivenUp
<1>3. listing' \in Listings
  <2>1. RestartList \in Listings /\ RetrySection \in Listings
    BY Numbers, RowCounts DEF RestartList, RetrySection, ListingInv, TypeOK, Listings
  <2>2. /\ listing.at + 1 \in Positions
        /\ listing.empty \cup {Section} \in SUBSET States
    BY <1>1, ListingFields DEF ListingInv, Positions
  <2>3. SkipSection \in Listings
    BY <2>2, Numbers DEF SkipSection, ListingInv, TypeOK, Listings
  <2> QED
    BY <1>0, <2>1, <2>3, ListingFields DEF Retried, GivenUp, ListingInv, Routes
<1>4. TypeOK' /\ Agree' /\ SinceHasNow'
  BY <1>1, <1>3 DEF ListingInv, TypeOK, StoreTypeOK, Agree, SinceHasNow, store
<1>5. RowsWereTrue' /\ NoRowTwice'
  <2>1. CASE listing'.rows = NoRows
    <3>1. \A k \in Keys, s \in States : Times(k, s)' = 0
      BY <2>1, RowCounts DEF Times
    <3> QED
      BY <3>1 DEF RowsWereTrue, NoRowTwice
  <2>2. CASE /\ listing'.rows = listing.rows /\ listing'.route = listing.route
             /\ listing'.at \in {listing.at, listing.at + 1}
    <3>1. \A s \in States : HasBeenRead(s) => HasBeenRead(s)'
      BY <1>1, <2>2 DEF HasBeenRead
    <3>2. \A k \in Keys, s \in States : Times(k, s)' = Times(k, s)
      BY <2>2 DEF Times
    <3> QED
      BY <1>1, <3>1, <3>2 DEF ListingInv, RowsWereTrue, NoRowTwice
  <2> QED
    BY <1>2, <2>1, <2>2
<1>6. ReadKeysAreListed'
  <2> SUFFICES ASSUME NEW k \in Keys, NEW s \in States,
                      ~listing'.failed, HasBeenRead(s)', since'[k] = {s},
                      s \notin listing'.empty
               PROVE  Times(k, s)' > 0
    BY DEF ReadKeysAreListed
  <2>1. listing'.at # 1
    BY DEF HasBeenRead
  <2>2. /\ HasBeenRead(s) /\ listing'.rows = listing.rows
        /\ s \notin listing.empty /\ ~listing.failed
    BY <1>1, <1>2, <2>1 DEF HasBeenRead, Section
  <2> QED
    BY <1>1, <2>2 DEF ListingInv, ReadKeysAreListed, Times
<1> QED
  BY <1>4, <1>5, <1>6 DEF ListingInv

\* A command that is written into the history keeps what the listing says.
LEMMA RecordedCommandKeepsListing ==
  ASSUME ListingInv, NEW k \in Keys, NEW reply,
         \/ \E d \in Payloads : add_pending(k, d, reply)
         \/ \E from, to \in States : transition(k, from, to, reply)
         \/ delete(k, reply)
         \/ \E claim \in Claims : set_verified(k, claim, reply)
         \/ \E json \in Json : hset_json(k, json),
         since' = [since EXCEPT ![k] = @ \cup {hash'[k].state}],
         UNCHANGED listing
  PROVE  ListingInv'
<1>1. /\ StoreTypeOK' /\ Agree'
      /\ \A j \in Keys : j # k => hash'[j] = hash[j]
  BY CommandEffect DEF ListingInv, TypeOK
<1>2. hash'[k].state \in States \cup {Nil}
  BY <1>1 DEF StoreTypeOK, Hashes
<1>3. TypeOK'
  BY <1>1, <1>2 DEF ListingInv, TypeOK
<1>4. /\ SinceHasNow'
      /\ \A j \in Keys : since[j] \subseteq since'[j]
  BY <1>1 DEF ListingInv, TypeOK, SinceHasNow
<1>5. RowsWereTrue' /\ NoRowTwice'
  BY <1>4 DEF ListingInv, RowsWereTrue, NoRowTwice, HasBeenRead, Times
<1>6. ReadKeysAreListed'
  <2>1. \A j \in Keys, s \in States : since'[j] = {s} => since[j] = {s}
    BY <1>4 DEF ListingInv, SinceHasNow
  <2> QED
    BY <2>1 DEF ListingInv, ReadKeysAreListed, HasBeenRead, Times
<1> QED
  BY <1>1, <1>3, <1>4, <1>5, <1>6 DEF ListingInv

-----------------------------------------------------------------------------
(***************************************************************************)
(* The forms.  A form names the section of its row and one of that         *)
(* section's buttons; while nobody else moves its key, the key is in that  *)
(* section until the form's script runs, and where the button says after.  *)
(***************************************************************************)

Fits(form) ==
  /\ form.state = form.section
  /\ form.action \in Buttons(form.section)
  /\ form.settled => hash[form.key].state =
                       IF form.ran THEN Target(form.action) ELSE form.section

FormsFit == \A form \in posted : Fits(form)

CInv == CTypeOK /\ ListingInv /\ FormsFit

\* The fields of a form on its way.
LEMMA FormFields ==
  ASSUME NEW form \in Forms
  PROVE  /\ form.action \in Actions /\ form.key \in Keys
         /\ form.section \in States /\ form.settled \in BOOLEAN
         /\ form.ran \in BOOLEAN
         /\ [form EXCEPT !.settled = FALSE] \in Forms
         /\ [form EXCEPT !.ran = TRUE] \in Forms
BY DEF Forms

\* A button moves its row's key from the row's section to another state.
LEMMA ButtonsMove ==
  ASSUME NEW section \in States, NEW action \in Buttons(section)
  PROVE  /\ action \in Actions
         /\ Target(action) # section
         /\ action # "delete" => Target(action) \in States
         /\ Target("delete") = Nil
<1>1. CASE section = "pending"
  BY <1>1, NilIsNoState DEF Buttons, Target, Actions, States
<1>2. CASE section = "authorized"
  BY <1>2, NilIsNoState DEF Buttons, Target, Actions, States
<1>3. CASE section = "blocked"
  BY <1>3, NilIsNoState DEF Buttons, Target, Actions, States
<1> QED
  BY <1>1, <1>2, <1>3 DEF States

\* A form's script is a transition from the form's section to the button's
\* target, or a delete.
LEMMA RunIsCommand ==
  ASSUME NEW form \in Forms, Fits(form), Run(form)
  PROVE  \E reply :
           \/ /\ form.action # "delete"
              /\ Target(form.action) \in States
              /\ transition(form.key, form.section, Target(form.action), reply)
           \/ form.action = "delete" /\ delete(form.key, reply)
<1>1. from_state(form) = form.section
  BY FormFields DEF Fits, from_state
<1>2. "authorized" \in States /\ "blocked" \in States
  BY DEF States
<1> QED
  BY <1>1, <1>2 DEF Run, Target

\* What the handling of a form does to its key, and that it disturbs no other.
LEMMA HandleEffect ==
  ASSUME CInv, NEW form \in posted, Handle(form)
  PROVE  /\ ListingInv'
         /\ \A j \in Keys : j # form.key => hash'[j] = hash[j]
         /\ hash'[form.key].state # hash[form.key].state
              => /\ hash'[form.key].state = Target(form.action)
                 /\ form.action # "delete"
                      => hash[form.key].state = form.section
         /\ form.settled => hash'[form.key].state = Target(form.action)
<1> DEFINE k == form.key
<1>1. /\ form \in Forms /\ Fits(form) /\ ListingInv /\ k \in Keys
      /\ form.section \in States /\ form.action \in Buttons(form.section)
      /\ form.ran \in BOOLEAN
  BY FormFields DEF CInv, CTypeOK, FormsFit, Fits
<1>2. PICK reply :
        \/ /\ form.action # "delete"
           /\ Target(form.action) \in States
           /\ transition(k, form.section, Target(form.action), reply)
        \/ form.action = "delete" /\ delete(k, reply)
  BY <1>1, RunIsCommand DEF Handle
<1>3. \/ \E from, to \in States : transition(k, from, to, reply)
      \/ delete(k, reply)
  BY <1>1, <1>2
<1>4. ListingInv'
  BY <1>1, <1>3, RecordedCommandKeepsListing DEF Handle
<1>5. \A j \in Keys : j # k => hash'[j] = hash[j]
  BY <1>1, <1>3, CommandEffect DEF ListingInv, TypeOK
<1>6. /\ hash'[k].state # hash[k].state
           => /\ hash'[k].state = Target(form.action)
              /\ form.action # "delete" => hash[k].state = form.section
      /\ form.settled => hash'[k].state = Target(form.action)
  <2>1. hash \in [Keys -> Hashes]
    BY <1>1 DEF ListingInv, TypeOK, StoreTypeOK
  <2>2. CASE form.action = "delete" /\ delete(k, reply)
    <3>1. hash'[k].state = Nil
      BY <1>1, <2>1, <2>2 DEF delete, NoHash
    <3> QED
      BY <1>1, <2>2, <3>1, ButtonsMove
  <2>3. CASE /\ form.action # "delete"
             /\ Target(form.action) \in States
             /\ transition(k, form.section, Target(form.action), reply)
    <3>1. CASE hash[k].state = form.section
      <4>1. hash'[k].state = Target(form.action)
        BY <1>1, <2>1, <2>3, <3>1, NilIsNoState DEF transition, Hashes
      <4> QED
        BY <2>3, <3>1, <4>1
    <3>2. CASE hash[k].state # form.section
      <4>1. UNCHANGED hash
        BY <2>3, <3>2 DEF transition, store
      <4>2. form.settled => hash[k].state = Target(form.action)
        BY <1>1, <3>2 DEF Fits
      <4> QED
        BY <4>1, <4>2
    <3> QED
      BY <3>1, <3>2
  <2> QED
    BY <1>2, <2>2, <2>3
<1> QED
  BY <1>4, <1>5, <1>6

\* When a command changes only the key k, every other form still fits.
LEMMA DisturbedFormsFit ==
  ASSUME NEW forms, forms \subseteq Forms, \A g \in forms : Fits(g),
         NEW k \in Keys, \A j \in Keys : j # k => hash'[j] = hash[j]
  PROVE  /\ Disturbed(forms, k) \subseteq Forms
         /\ \A f \in Disturbed(forms, k) : Fits(f)'
<1> SUFFICES ASSUME NEW f \in Disturbed(forms, k)
             PROVE  f \in Forms /\ Fits(f)'
  OBVIOUS
<1>1. PICK g \in forms :
        f = IF g.key = k /\ hash'[k].state # hash[k].state
              THEN [g EXCEPT !.settled = FALSE] ELSE g
  BY DEF Disturbed
<1>2. g \in Forms /\ Fits(g) /\ g.key \in Keys
  BY FormFields
<1>3. CASE g.key = k /\ hash'[k].state # hash[k].state
  <2>1. /\ f \in Forms /\ f.settled = FALSE /\ f.state = g.state
        /\ f.section = g.section /\ f.action = g.action
    BY <1>1, <1>2, <1>3 DEF Forms
  <2> QED
    BY <1>2, <2>1 DEF Fits
<1>4. CASE ~(g.key = k /\ hash'[k].state # hash[k].state)
  <2>1. f = g /\ hash'[g.key].state = hash[g.key].state
    BY <1>1, <1>2, <1>4
  <2> QED
    BY <1>2, <2>1 DEF Fits
<1> QED
  BY <1>3, <1>4

\* Every step keeps the forms fitting.
LEMMA NextKeepsConsole ==
  ASSUME CInv, [CNext]_cvars
  PROVE  CInv'
<1> USE DEF CInv, CTypeOK
<1>1. CASE UNCHANGED cvars
  BY <1>1 DEF cvars, vars, ListingInv, TypeOK, StoreTypeOK, Agree, SinceHasNow,
             RowsWereTrue, ReadKeysAreListed, NoRowTwice, HasBeenRead, Times,
             FormsFit, Fits
<1>2. ASSUME NEW k \in Keys, NEW section \in States, NEW action \in Actions,
             Click(k, section, action)
      PROVE  CInv'
  <2> DEFINE new == [action |-> action, key |-> k, state |-> StateInput(section),
                     ran |-> FALSE, section |-> section,
                     settled |-> since[k] = {section}]
  <2>1. ListingInv' /\ UNCHANGED hash
    BY <1>2 DEF Click, vars, ListingInv, TypeOK, StoreTypeOK, Agree, SinceHasNow,
                RowsWereTrue, ReadKeysAreListed, NoRowTwice, HasBeenRead,
                Times
  <2>2. since[k] = {section} => hash[k].state = section
    BY DEF ListingInv, SinceHasNow
  <2>3. new \in Forms
    BY DEF Forms, StateInput
  <2>4. Fits(new)
    BY <1>2, <2>2 DEF Fits, Click, StateInput
  <2>5. posted' = posted \cup {new}
    BY <1>2 DEF Click
  <2> HIDE DEF new
  <2> QED
    BY <2>1, <2>3, <2>4, <2>5 DEF FormsFit, Fits, ListingInv
<1>3. ASSUME NEW form \in posted, Handle(form) PROVE CInv'
  <2> DEFINE rest == Disturbed(posted \ {form}, form.key)
             again == [form EXCEPT !.ran = TRUE]
  <2>1. /\ form \in Forms /\ form.key \in Keys /\ Fits(form)
        /\ again \in Forms
    BY FormFields DEF FormsFit
  <2>2. /\ ListingInv'
        /\ \A j \in Keys : j # form.key => hash'[j] = hash[j]
        /\ form.settled => hash'[form.key].state = Target(form.action)
    BY <1>3, HandleEffect
  <2>3. rest \subseteq Forms /\ \A f \in rest : Fits(f)'
    BY <2>1, <2>2, DisturbedFormsFit DEF FormsFit
  <2>4. Fits(again)'
    BY <2>1, <2>2 DEF Fits, Forms
  <2>5. posted' = rest \/ posted' = rest \cup {again}
    BY <1>3 DEF Handle
  <2> HIDE DEF rest, again
  <2>6. posted' \subseteq Forms
    BY <2>1, <2>3, <2>5
  <2>7. FormsFit'
    BY <2>3, <2>4, <2>5 DEF FormsFit
  <2> QED
    BY <2>2, <2>6, <2>7 DEF ListingInv
<1>4. ASSUME NEW form \in posted, Lose(form) PROVE CInv'
  <2>1. ListingInv' /\ UNCHANGED hash
    BY <1>4 DEF Lose, vars, ListingInv, TypeOK, StoreTypeOK, Agree, SinceHasNow,
                RowsWereTrue, ReadKeysAreListed, NoRowTwice, HasBeenRead,
                Times
  <2> QED
    BY <1>4, <2>1 DEF Lose, FormsFit, Fits, ListingInv
<1>5. ASSUME NEW k \in Keys, Change(k), posted' = Disturbed(posted, k)
      PROVE  CInv'
  <2>1. \/ \E d \in Payloads : add_pending(k, d, "OK")
        \/ \E from, to \in States : transition(k, from, to, "OK")
        \/ delete(k, "OK")
        \/ \E claim \in Claims : set_verified(k, claim, "OK")
        \/ \E json \in Json : hset_json(k, json)
    BY <1>5 DEF Change, Update
  <2>2. ListingInv'
    BY <1>5, <2>1, RecordedCommandKeepsListing DEF Change
  <2>3. \A j \in Keys : j # k => hash'[j] = hash[j]
    BY <2>1, CommandEffect DEF ListingInv, TypeOK
  <2>4. posted' \subseteq Forms /\ \A f \in posted' : Fits(f)'
    BY <1>5, <2>3, DisturbedFormsFit DEF FormsFit
  <2> QED
    BY <2>2, <2>4 DEF FormsFit, ListingInv
<1>6. ASSUME \/ \E route \in Routes : Begin(route)
             \/ ReadSet
             \/ Drop
             \/ Fail,
             UNCHANGED posted
      PROVE  CInv'
  <2>1. ListingInv'
    BY <1>6, BeginKeepsListing, ReadSetKeepsListing, ErrorKeepsListing
  <2>2. UNCHANGED hash
    BY <1>6 DEF Begin, ReadSet, Drop, Fail, store
  <2> QED
    BY <1>6, <2>1, <2>2 DEF FormsFit, Fits, ListingInv
<1> QED
  BY <1>1, <1>2, <1>3, <1>4, <1>5, <1>6 DEF CNext

\* The invariant holds in every reachable state of the console.
LEMMA Invariance == CSpec => []CInv
<1>1. CInit => CInv
  <2> SUFFICES ASSUME CInit PROVE CInv
    OBVIOUS
  <2>1. StoreTypeOK /\ Agree /\ SinceHasNow
    BY NilIsNoState DEF CInit, Init, StoreInit, StoreTypeOK, NoHash, Hashes,
                        Agree, SinceHasNow
  <2>2. listing \in Listings /\ listing.rows = NoRows /\ listing.failed
    BY Numbers, RowCounts DEF CInit, Init, Failed, Listings, Routes
  <2>3. TypeOK
    BY <2>1, <2>2 DEF CInit, Init, TypeOK
  <2> QED
    BY <2>1, <2>2, <2>3, NothingListed
       DEF CInit, CInv, CTypeOK, ListingInv, ReadKeysAreListed, FormsFit
<1>2. CInv /\ [CNext]_cvars => CInv'
  BY NextKeepsConsole
<1> QED
  BY <1>1, <1>2, PTL DEF CSpec

\* Every reachable state of the console is well typed.
THEOREM TypeCorrect == CSpec => []CTypeOK
<1>1. CInv => CTypeOK
  BY DEF CInv
<1> QED
  BY <1>1, Invariance, PTL

\* No listing shows a key in a state it was not in while the listing was made.
THEOREM ListedRowsWereTrue == CSpec => []RowsWereTrue
<1>1. CInv => RowsWereTrue
  BY DEF CInv, ListingInv
<1> QED
  BY <1>1, Invariance, PTL

\* A finished listing has every key that stayed in one state, there once and
\* nowhere else.
THEOREM ListingsAreComplete == CSpec => []SettledKeysAreListed
<1>1. CInv => SettledKeysAreListed
  <2> SUFFICES ASSUME CInv, NEW k \in Keys, NEW s \in States,
                      Finished, since[k] = {s}, s \notin listing.empty
               PROVE  \A t \in States : Times(k, t) = IF t = s THEN 1 ELSE 0
    BY DEF SettledKeysAreListed
  <2>1. HasBeenRead(s)
    BY FinishedHasReadAll DEF CInv, ListingInv, Finished
  <2>2. Times(k, s) > 0
    BY <2>1 DEF CInv, ListingInv, ReadKeysAreListed, Finished
  <2>3. \A t \in States : /\ Times(k, t) \in Nat /\ Times(k, t) <= 1
                          /\ Times(k, t) > 0 => t \in since[k]
    BY ListingFields DEF CInv, ListingInv, RowsWereTrue, NoRowTwice
  <2> QED
    BY <2>2, <2>3
<1> QED
  BY <1>1, Invariance, PTL

\* A button does what it says to a key nobody else has moved, retried or not.
THEOREM ButtonsDoAsTheySay == CSpec => ButtonsWork
<1>1. CInv => \A form \in posted :
                Handle(form) /\ form.settled
                  => hash'[form.key].state = Target(form.action)
  BY HandleEffect
<1> QED
  BY <1>1, Invariance, PTL DEF CSpec, ButtonsWork

\* A form moves a key only as its row offered.
THEOREM FormsDoOnlyWhatWasOffered == CSpec => OnlyWhatWasOffered
<1>1. CInv => \A form \in posted :
                Handle(form) /\ hash'[form.key].state # hash[form.key].state
                  => /\ hash'[form.key].state = Target(form.action)
                     /\ form.action # "delete" => hash[form.key].state = form.section
  BY HandleEffect
<1> QED
  BY <1>1, Invariance, PTL DEF CSpec, OnlyWhatWasOffered
=============================================================================
