# hc-auth-server: specification and proofs

hc-auth-server keeps, in Redis, one record per client public key: *pending*, *authorized* or
*blocked*. Clients register keys and log in with them, operators move keys through a web console
behind a GitHub login, and administrators do the same, and attest claims about keys, through an API
with bearer tokens. This directory models the server in TLA+, checks it with TLC and proves with
TLAPS the safety properties that the runs find to hold, and the refinement of an abstract registry.

Paths below are relative to the repository's root.

## 1. Inventory

| Part | Code | State | Operations |
| --- | --- | --- | --- |
| Redis records | `src/storage.rs`, `src/storage/*.lua`, `src/storage/lua.rs`, `types.rs` | hash `auth:{key}` with `state`, `json`, `verified`; set `state:{s}` for each state | scripts add_pending, transition, delete, set_verified, get_all_by_state; plain HMGET, HSET, SMEMBERS |
| with_connection | `src/storage.rs` | which attempt it is | one rerun of the whole operation after a dropped connection |
| Client routes | `src/routes_client.rs` | none | /now, PUT /request-auth/{key}, PUT /authenticate |
| Admin API | `src/routes_api.rs` | none | list, get, transition, verified |
| Email confirmation | `src/routes_confirm.rs`, `count_in_window.lua` | Redis counters with an expiry | POST /api/confirm-email |
| Console: login | `src/routes_ops.rs`, `src/state.rs` | `pending_auth` in memory; cookies `csrf_id`, `user_session` | oauth-login, oauth-callback, logout |
| Console: dashboard and forms | `src/routes_ops.rs`, `templates/protected.html` | `csrf_tokens` in memory | /ops/auth, approve, block, delete |
| Cleanup task | `src/bin/main.rs` | its timer | every 5 minutes drops entries of both maps that are 15 minutes old |
| Request checks | `src/routes_client.rs`, `src/routes_api.rs`, `src/utils.rs` | none | key and signature validation, bearer tokens |
| Process, configuration, TLS | `src/bin/main.rs`, `src/config.rs`, `src/tls.rs` | configuration, the certificate served | start-up, hourly reload, token lists |
| GitHub client | `src/github.rs`, `src/oauth_http.rs` | none | I/O at the edge |

How they interact. Every HTTP handler is a task of its own, and it is dropped, wherever it waits, when
its client hangs up. Several server processes may share one Redis. Handlers share the Redis records and the
two maps in memory. Each use of a map is one section under its mutex, with no await inside. Each
Lua script, HMGET or HSET is atomic in Redis, and between two of them a handler awaits, so other
handlers run. A record's state is stored twice: in the hash, which decides, and in the sets, which
list.

What is hard here:

- `authenticate_key` reads the record, awaits and writes one of its fields: a block, a delete or an
  attestation may come between.
- A dropped connection does not say whether the command ran. The operation is run again, and a
  command given up on may run late.
- Neither listing is one command: keys move while it reads.
- A counter's expiry is set by its first hit only, and a retry counts twice.
- An operator acts on a page that was read in three parts some time ago, and the form may arrive late
  or run twice.
- Certificate and key are two files, which somebody replaces while the server reads them.
- One browser has several login tabs and one cookie; pages stay open across logouts, cleanups and
  restarts.

What makes each part correct: the two places of a record's state agree, and it changes only as
somebody asked; a login neither loses nor invents anything; an answer was true while the request was
served; a listing misses no key that stayed where it was; a button does what it says, and nothing its
row did not offer; the limits hold and lapse; a login is exchanged once and kept until its time; a
form works while its page is fresh, and only for its operator; reloads do no harm and the certificate served is, in
the end, the renewed one. The hazards, each with its line and its properties, are in `PROJECT.json`.

## 2. Modules

| Module | What it is |
| --- | --- |
| `AuthStore` | the records and each Redis command on them, one operator per script |
| `AuthServer` | the handlers on the records: slots that serve requests, the retry, failures, late commands, abandoned handlers |
| `KeyRegistry` | abstract specification: what the server promises about a key |
| `AuthRequirements` | the properties of AuthServer, with the mapping to KeyRegistry |
| `AuthServerProofs` | the theorems about AuthServer |
| `AnswerHistory` | AuthServer with a history variable, for what an answer may say |
| `AnswerHistoryProofs` | that every answer was true and every token answered was stored |
| `KeyListing` | `/api/list` and the dashboard's tables over the records |
| `OpsConsole` | the console over the listing: rows, buttons, forms on their way, their scripts |
| `OpsConsoleProofs` | the theorems about listings and console |
| `ConfirmLimiter` | the rate limits of `/api/confirm-email` |
| `ConfirmLimiterProofs` | the theorems about the limits |
| `OpsLogin` | the login through GitHub, `pending_auth` and its cleanup |
| `OpsLoginProofs` | the theorems about logins |
| `OpsForms` | `csrf_tokens`, the forms and the cleanup of tokens, on one server or several |
| `OpsFormsProofs` | the theorems about form tokens |
| `ServerProcess` | start-up, the configuration that decides how to serve, TLS reloading |
| `ServerProcessProofs` | the theorems about start-up and certificates |
| `BearerTokens` | pure operators: token lists and which token passes |
| `BearerTokensProofs` | that every list is read as its entries |
| `MCRequests`, `MC*` | the requests and symmetries the runs use |

`AuthServer` and `KeyListing` extend `AuthStore`, `OpsConsole` composes `KeyListing` with the scripts
its forms run. `AuthRequirements` and `AnswerHistory` extend `AuthServer`. `OpsForms` ends where
`OpsConsole`'s `Handle` begins, and `ConfirmLimiter` where `confirm_email` begins; they share no state
with what follows, so they are not composed.

### AuthStore and AuthServer

`hash[k]` is `auth:{k}`, with `Nil` for a missing field; `index[s]` is `state:{s}`. `json` keeps the
payload and the `authToken`; timestamps are dropped. Claims are told apart by the normalized email in
them, which is all `email_matches` compares.

`call[p]` is a request being served. `Receive` starts it after its checks; a request that fails
them touches no storage. `Execute` is Redis running a script, or the HSET of an authenticate; the slot then
stands at `"reply"` until `Reply` is the handler going on with what Redis answered, and anything may
run in between. `api_get`, `confirm_email` and `authenticate_read` are the HMGETs; they change no
record and what they found is the handler's own, so read and reply are one step. After
`authenticate_read` the slot waits at `"write"` with the JSON it computed: that is the gap between
HMGET and HSET.
`Drop` is a dropped connection: the first starts the operation again from its first command (a new
authenticate reads again), the second is the caller's error. `Fail` is every other error; it is not
retried. In both, the command may be lost or join `stray`, from which `Deliver` runs it at any later
time; `Deliver` directly after `Drop` is the command that ran and whose reply was lost. `Abandon`
is a handler that is dropped with its client or its process, and its command, too, may still run; a
process that ends abandons each of its slots, and those of another process on the same Redis go on.

The console answers 303 whatever storage said, so its answers tell nothing; what its forms do is
`OpsConsole`'s.

### The other modules

`KeyListing`: `listing` is one listing on its way through the three sets (`at`), `since[k]` the states
k has been in since it began (history). `rows` counts how often each row is in the Vec, so a row
listed twice is told from one listed once. It stays, once finished, as the page in the browser. The API list restarts as a whole, the dashboard retries each
section and leaves out what it cannot read. The other handlers appear as AuthStore's `Update`: any
command that writes a record, registrations, moves, deletes, attestations and logins alike. That
AuthServer changes the records in no other way is RecordsChangeByCommands.

`OpsConsole`: `Click` turns a row of the finished dashboard and one of its section's buttons
(`templates/protected.html`) into a form in `posted`, which carries the hidden `state` input. `Handle`
runs the script of its route with `from_state`, the parsed input or *pending*; a form whose reply was
lost runs once more, one that is refused or lost runs never. `settled` is history: nobody but this
form has moved the key since the dashboard was read.

`ConfirmLimiter`: `counter[c]` holds count and remaining lifetime of `confirm:tok:*` and
`confirm:key:*`. A call passes its token's counter, its key's counter and the look-up. `DropCount`
and `FailCount` leave open whether the script ran. `arrived` and `passed` are history. A hit that
runs late, after its sender gave up, is not modelled: it only adds to a counter. A counter's
count is held at `MaxCount`, which is above both limits, so every comparison comes out the same.

`OpsLogin`: `pending_auth[i]` is a stored login's age. `ops_oauth_callback` takes out the login the
cookie names, and only then compares the state and, after an await, talks to GitHub;
`FinishCallback` is the end of that. A callback comes with any state: that of an older tab, of a page
loaded again, of another browser's login. `csrf_id` and the OAuth state are drawn together, so one value
stands for both. `OpsForms`: `csrf_tokens[s][u]` is an operator's token and age in server
s's memory, `pages[b]` the dashboards a browser has open, `Reaches[b]` the servers the load balancer may send
its requests to. In both, `Tick` is a unit of time; it stops when the cleanup is due
until it has run (`tokio::time::interval` fires on time and its work takes none). A random value is
one that nothing holds any more; this lets TLC reuse values, and is what a long random value gives.
`OpsLogin` has one server; with several, a login would have to come back to the server it started at.

`ServerProcess`: `Configure` is `main` up to the listener, with the environment as far as it decides
anything: the TLS variables, PRODUCTION, and whether everything else is there and parses. `ReadCert`
and `ReadKey` are one load: axum-server reads the certificate file, then the key file, and rustls
refuses a pair that does not match (a check of that library's, so no property is made of it). The first load starts the server or ends the process, later ones
follow the hour's sleep and change nothing when they fail. `Renew` and `Write` are whoever renews the
certificate: one file after the other, in either order, each unreadable for a while. `BearerTokens`
reads a token list as `parse_tokens` does, as characters, since the property is about them;
`ServerProcess` keeps what it read from the list it was started with.

## 3. Runs

| Run | Checks | Instance | Distinct states |
| --- | --- | --- | --- |
| `race` | TypeOK, IndexConsistent, MovesWereRequested, RecordsChangeByCommands, ImplementsRegistry | one key, two handlers, every kind of write and confirmations, one late command at a time, retries, abandoned handlers | 391,477 |
| `cap` | PendingCap, HandlersRunOut, EveryCallEnds | two keys for one pending place, two handlers, one key logs in and is looked up, fairness | 209,449 |
| `answers` | AnswerWasTrue, AnsweredTokenWasStored | every answer that tells something about a key, while the key is moved; two tokens, so two first logins each draw their own | 694,510 |
| `console` | CTypeOK, RowsWereTrue, SettledKeysAreListed, ButtonsWork, OnlyWhatWasOffered | both listings, one key, every write by others, two forms on their way | 372,992 |
| `limits` | TypeOK, LimitHolds, WindowsOnlyShrink | two tokens, one key, limits of 1, two handlers, window of 2 | 985,876 |
| `login` | TypeOK, ExchangedOnce, LoginsAreKept, UnfinishedLoginsAreForgotten | two browsers, three logins, so that one browser may start two; callbacks with any state | 23,319 |
| `forms` | TypeOK, FreshFormsWork, FormsActForTheirUser | two servers, three browsers each kept at one of them, two operators, two tokens, one page per browser | 2,206,107 |
| `serve` | TypeOK, HttpsWhenAsked, ReloadsKeepServing, RenewalsAreServed, OnlyEntriesPass | every configuration with every token list of up to five characters, three versions of the certificate | 78,681 |
| `ghost` | RegisteredHasState, violated | see section 5 | stops at the violation |
| `apicap` | PendingCap, violated | see section 5 | stops at the violation |
| `countedtwice` | RefusedOnlyOverLimit, violated | see section 5 | stops at the violation |
| `scaleout` | FreshFormsWork with two servers and no affinity, violated | see section 5 | stops at the violation |

What they show:

- **IndexConsistent**: hashes and sets agree in every state, since every script changes both and no
  plain command changes either's state part.
- **MovesWereRequested**: a change of a key's state is one that an outstanding request named, with
  both states. Approving from a page that shows *pending* never unblocks a key, however often it is
  retried or how late it runs.
- **ImplementsRegistry**: in terms of KeyRegistry, each step registers, moves, removes or attests one
  key at once, or does nothing. In particular a login in two commands loses no attestation, as the
  comment of `set_verified` claims.
- **RecordsChangeByCommands**: the records change by one whole command on one key at a time, and a
  login writes none without a token. This is what `KeyListing` and `OpsConsole` take for granted of
  everybody else, so what is shown of them holds beside AuthServer's handlers.
- **PendingCap**: never more pending keys than the cap when nothing moves keys to pending. The console cannot.
- **AnswerWasTrue**: an answer, of a registration, a login, a look-up, a confirmation or a write, fits
  the key's record at some moment between the request and its answer. So after a block has been answered, no *new* login gets a token; one already being served may.
- **HandlersRunOut**, **EveryCallEnds**: each thing that happens to a handler brings it nearer to its
  end (six steps at most: a login's read, write and reply, and all three once more), so none waits for
  ever.
- **AnsweredTokenWasStored**: a token that a login answers was in the record at some moment while the
  login was served, although another first login, a delete or a late command may run between its HSET
  and its answer. It need not be there still: of two first logins the later HSET stays.
- **RowsWereTrue**, **SettledKeysAreListed**: the listing's rows were true, and a key that did not
  change during a listing appears exactly once, also when sections failed or the listing began again. A key that moved may be missing or appear twice.
- **ButtonsWork**, **OnlyWhatWasOffered**: from the three reads through the page, the click and the
  delay to the script, a decision on a key nobody else touched takes effect, also when it runs twice,
  and a decision on a key that has moved on takes none. The exception is delete, which names no state
  and removes its key from any.
- **LimitHolds**, **WindowsOnlyShrink**: no window lets more through than its limit. Each tick takes
  one from every window that has begun and the last one ends it; no other step moves its end or counts
  down, so a window lives exactly its length however steadily a caller calls. Windows are fixed, so two adjacent ones may let through twice the limit in a shorter time.
- **ExchangedOnce**, **LoginsAreKept**, **UnfinishedLoginsAreForgotten**: a callback, reloaded or in a
  second tab, exchanges a login at most once; a login leaves memory only through its browser's
  callback, its age or a restart.
- **HttpsWhenAsked**, **ReloadsKeepServing**, **RenewalsAreServed**: a TLS variable means HTTPS or no
  server; reloads in the middle of renewals, failed ones too, never stop a server, take its HTTPS away
  or bring an older certificate back; a server that keeps running presents
  the renewed certificate in the end, whatever reloads failed before.
- **OnlyEntriesPass**: the list is read as a definition of "entry" says that does not split it; no
  list lets an empty token pass.
- **FreshFormsWork**, **FormsActForTheirUser**: behind a balancer that keeps a browser at its server, a
  page younger than 15 minutes works unless that server restarted, and a page one operator left open does nothing for the next.

Bounds. Records of different keys meet only in the pending cap (`add_pending.lua`); a set is read at
once, so a listing shows each key as if it were alone. `race`, `answers` and `console` take one key
and `cap` two. In `console` two forms on one key are two operators against each other, and `Change`
is everybody else. Two slots
put any two handlers side by side, and one late command is a third actor. Every one-shot script
changes the records in one step, so a third slot would only add one more such step between two of
another's. Two tokens in `answers` let two first logins each draw their own; `race` asks nothing about
which token it is and has one, which is drawn once, so there a key deleted and registered again gets
none. Deletes are in `race` and not in `answers`; the theorems about answers have them. `MaxStray`
bounds the late commands that exist at once, not how many there are in a run. In `limits` the limits are 1, so the second call is the boundary, and two tokens on one key reach the
per-key limit across tokens. In `login` and `forms` TTL and Interval stand for 15 and 5 minutes. Interval is above 1,
so entries are also made between cleanups; `login` uses TTL = 3 with Interval = 2, where the age at a
cleanup both hits and misses TTL, and so does `forms` with TTL = 2, where the second browser of the
one server shares an operator's entry with the first, and the third browser's server has entries of its
own. Three versions in `serve` let a renewal
fail to load, be loaded, and another follow; five characters hold two entries with space and commas
around them, and presented tokens of three characters every entry worth telling apart. Symmetry is used only in
runs with no liveness property.

Fairness. `AuthServer!FairSpec` asks weak fairness of each slot's `Proceed`: a Redis command that is
waited for ends in a reply, a dropped connection or an error (`ConnectionManager` of redis 1.8
has a response timeout by default; the test `timeout_is_not_retryable` in `src/storage.rs` is about
that error). Nothing makes a late command arrive, and nothing prevents every connection from dropping.
`OpsLogin` asks that time passes and that the cleanup task runs as long as the process does (`loop`
around `interval.tick().await` in `main`); `ServerProcess` that the hour's sleep ends and a file read
returns (`loop` around `sleep(ONE_HOUR).await` in `tls.rs`). Nothing makes a renewal go on.

Each property has a mutant: a plausible bug (named `..._Something` next to the definition it
replaces) that TLC finds through that property.

## 4. Proofs

Eight modules hold theorems, each about every value of the constants: any sets of keys, tokens,
browsers and operators, any number of handlers, any limits and periods. What a theorem assumes
beyond the modules' named ASSUMEs is in the last column.

| Module | Theorem | Statement | If |
| --- | --- | --- | --- |
| `AuthServerProofs` | TypeCorrect | `Spec => []TypeOK` | |
| | IndexIsConsistent | `Spec => []IndexConsistent` | |
| | MovesAreRequested | `Spec => MovesWereRequested` | |
| | OneCommandAtATime | `Spec => RecordsChangeByCommands` | |
| | HandlersComeToAnEnd | `Spec => HandlersRunOut` | |
| | RegistryIsImplemented | `Spec => ImplementsRegistry` | |
| | PendingIsCapped | `Spec => []PendingCap` | no request moves a key to pending |
| | RegistrationsHold | `Spec => RegisteredHasState` | no request deletes |
| `AnswerHistoryProofs` | AnswersWereTrue | `ASpec => AnswerWasTrue` | |
| | TokensAnsweredWereStored | `ASpec => AnsweredTokenWasStored` | |
| `OpsConsoleProofs` | TypeCorrect | `CSpec => []CTypeOK` | |
| | ListedRowsWereTrue | `CSpec => []RowsWereTrue` | |
| | ListingsAreComplete | `CSpec => []SettledKeysAreListed` | |
| | ButtonsDoAsTheySay | `CSpec => ButtonsWork` | |
| | FormsDoOnlyWhatWasOffered | `CSpec => OnlyWhatWasOffered` | |
| `ConfirmLimiterProofs` | TypeCorrect | `Spec => []TypeOK` | |
| | LimitIsKept | `Spec => []LimitHolds` | |
| | WindowsShrink | `Spec => WindowsOnlyShrink` | |
| `OpsLoginProofs` | TypeCorrect | `Spec => []TypeOK` | |
| | OneExchangePerLogin | `Spec => []ExchangedOnce` | |
| | LoginsLeaveAsTheyMay | `Spec => LoginsAreKept` | |
| `OpsFormsProofs` | TypeCorrect | `Spec => []TypeOK` | |
| | FormsActForTheirOperator | `Spec => []FormsActForTheirUser` | |
| | FreshFormsWorkWithAffinity | `Spec => []FreshFormsWork` | each browser reaches one server |
| `BearerTokensProofs` | ListsReadAsEntries | `t \in parse_tokens(s) <=> IsEntry(t, s)` | `s` is a string |
| `ServerProcessProofs` | TypeCorrect | `Spec => []TypeOK` | |
| | OnlyEntriesPassAlways | `Spec => []OnlyEntriesPass` | |
| | HttpsIsNotLost | `Spec => []HttpsWhenAsked` | |
| | ReloadsDoNoHarm | `Spec => ReloadsKeepServing` | |

The modules' ASSUMEs say that keys are a finite set, that bounds, limits and periods are numbers of
the size they have to be (a count is held above both limits, periods are not zero), that `Nil` is
none of the values it is told apart from, that the operators who may sign in are users, that
the balancer sends requests to servers, that a token list is a string, and that requests are
well-formed. Each is evaluated by the runs.

Three theorems have a hypothesis of their own because without it they are false, which a run shows:
`apicap` for the cap, `ghost` for registrations, `scaleout` for fresh forms. They say that those are
the only ways in which the properties fail.

### The records

All that changes the records is `Apply`, called from `Execute` and from `Deliver`; `StepIsCommand`
says so: a step either leaves the store alone or applies one command of an outstanding request. So
everything about the store is a lemma about `Apply`, with one case per script, used for both
callers. TypeOK is inductive by itself; it holds the fact that a slot not idle has a request, and
that stray commands are commands. IndexConsistent is inductive together with TypeOK: without it
`transition` could remove a key from the one set it is in and leave it in another. It is needed in
turn for PendingCap, because `add_pending` compares the size of the set and a move out of pending
must shrink it, and for the refinement, because KeyRegistry counts pending keys by their standing
and the script by the set (`SameCardinality`).

A handler is followed by `HInv`: a slot whose command has not run has status 0; a slot at `"send"` or
`"reply"` carries no JSON and one at `"write"` is a login that carries JSON with a token (`HandlerOK`); only commands that
write run late (`StrayWrites`); a record with a state has its JSON (`StatesHaveJson`). `ProceedEffect`
then says what a slot that proceeds comes to, and `OneSlotSteps` that the others stay.

`GInv` adds, for a server nobody deletes from, that no hash is without a state (`NoGhosts`), which
needs that a login waiting for its HSET, and one whose HSET is late, is of a key that has a state.
These are the two steps between which a delete makes the ghost.

### The answers

`AInv` adds to `HInv` what a handler has seen since its request: its `seen` holds views of its key,
among them the present one while it is in flight (`SeesNow`); a login at `"write"` has seen its
key authorized (`SawAuthorized`); and what a reply on its way will make the handler answer fits a view
it has seen (`SawReply`), the token of a login's reply one that has it (`SawToken`). The last two are
what lets others run between command and answer: `seen` only grows, so what held when the command ran
holds when the answer is given. `ReadFits` and `ExecuteFits` establish them, from the view the HMGET
found, the one the command left, or, for a login's HSET, the one it read before; `AnswersFit` uses
them.

### The listings and the console

`ListingInv` is RowsWereTrue with what it rests on: sets and hashes agree (`Agree`), `since[k]` holds
the state k is in now, a set not yet read has no rows and no row is there twice (`NoRowTwice`), and a key that stayed in one state whose set has been read is in that set's
rows (`ReadKeysAreListed`). A section that failed counts as read with nothing in it, which is why the
property excepts it. A finished listing has read all three sets, so SettledKeysAreListed follows. For
the forms, `FormsFit` says that a settled form's key is where the row showed it, or, once its script
ran, where the button names. `HandleEffect` gives both console properties, and `DisturbedFormsFit`
that a command on one key spoils no settled form on another.

### The limiter

A counter has time left exactly when it counts something (`Lives`), and has let through no more than
it has counted nor than its limit (`Covers`). The first is what fails when EXPIRE is set on each hit
or on none, and what WindowsShrink needs: a hit on a counter with time left sets no new end. The second holds because a call passes only when its own count is within the limit, so the
number it got is above every number passed before.

### Logins and form tokens

In both, `AgesBounded` says that an entry's age and the time to the next cleanup together stay under
TTL plus one interval: this makes the ages finite, and it is why the cleanup must be on time.
ExchangedOnce is inductive with the types alone: what is being exchanged is not stored.

For the forms, `TokensAreOwn` relates three places: whoever's entry holds a token, every page and every
other server's entry with that token is of the same operator. Fresh tokens keep it, because a new one
is held and shown nowhere. FreshFormsWork needs `FreshPagesHaveEntries`: a page younger than TTL has its
operator's entry, with its token, and that entry is no older than the page. The second half is the
renewal by every page load; without it the cleanup could take the entry of a young page. It is here
that affinity matters: a page load renews the entry of the server that renders it, and a form is
looked up at the server it reaches, so the two must be the same. Nothing else about the number of
servers does: other servers' page loads, cleanups and restarts leave the entry alone. One server is
a corollary (FreshFormsWorkOnOneServer).

### The process

`PhaseOK` ties how far `main` has come to what the process does about the files: a process that serves
either was asked for no TLS and has no reload task, or is in production mode, has one, and presents a
pair. ReloadsDoNoHarm rests on `Forward` besides: the version served is no newer than the one being
read, that no newer than the one in the file, that no newer than the last renewal, as far as each is
there. So a load that goes through, between whichever writes, only moves forward.

### Token lists

`split` is the last of `splits(s)`, a recursive function over the characters read so far: a comma opens a
new piece, another character extends the last. `SplitIsPieces` says what that comes to: the pieces are
exactly the runs without a comma between two borders (a comma, or an end of the list).
`TrimToInk` says what trimming leaves, and `PieceInPlace` that it lies in the string as IsEntry wants
it; ListsReadAsEntries joins them in both directions. The induction is over the characters read. The
library states induction with an operator as parameter, which the provers cannot instantiate, so
`Least` and `Induct` restate it with a *set* of numbers in the operator's place, and each use
names its set. OnlyEntriesPassAlways then needs only that `main` reads the list once, before it
serves, and keeps what it read (`ListKept`).

### The rest of the system beside a handler

`StepIsWholeCommand` sharpens `StepIsCommand`: a step that changes the records applies a command that
`Writes`, and by `SentLoginHasToken` a login among those carries a token. OneCommandAtATime is the
guarantee that discharges the environment which the proofs about listings and console assume.
HandlersComeToAnEnd rests on `ProceedCounts`: a handler that goes on waiting has read its record, had
its command run, or spent its retry. A dropped connection sends it back to its first command, and it is the attempt
spent that makes the count go down.

### Only model-checked

- EveryCallEnds, UnfinishedLoginsAreForgotten, RenewalsAreServed: liveness under fairness, which TLAPS
  does not reach. Of the first, HandlersRunOut is proved; what is left is that a waiting handler is
  served.
- RefusedOnlyOverLimit is violated (`countedtwice`) and has no weaker form worth stating: without
  dropped connections it would say that a counter counts.

## 5. Findings

- **A deleted key may come back as a ghost** (`ghost`). `authenticate_key` writes `json` by HSET whether
  or not the record is still there. A delete in between makes it a hash with `json` and no `state`:
  the key is on no list, cannot be moved (`not_found`), and cannot register again, since
  add_pending.lua finds the hash; the client is told 200 because "the state the caller asked for
  already holds" (`src/routes_client.rs:71-72`). Deleting it once more repairs it, but the console
  does not show it. A delete is the only way to get there: without one the property is proved
  (RegistrationsHold).
- **The cap does not count moves to pending** (`apicap`). README.md:104 gives
  `MAX_PENDING_REQUESTS` as the maximum held in storage; `POST /api/transition` may exceed it.
- **A retry counts twice** (`countedtwice`). The comment of `is_retryable` says that the command cannot have
  reached Redis; `request_auth`'s comment knows that it can. A rate-limited call whose first reply
  was lost counts twice and may be refused within its limit.
- **Several servers spoil each other's forms** (`scaleout`). README.md:201 calls the service stateless
  and fit for a load balancer without affinity, since sessions are in signed cookies. They are, but
  the form tokens are in each process's memory, and so are the logins under way: a form on a page of
  one server is refused by the other. Affinity is needed, and it is enough: if the balancer keeps each
  browser at its server, FreshFormsWork holds (`forms`, and proved for any number of servers).

## 6. Not modelled

- Key and signature validation and the time in `/now`'s challenge: pure functions of one request. What
  failed them never reaches the modelled steps. `authenticate` verifies the signature and does not
  look at the time, so `DRIFT_SECS` decides nothing that could be modelled.
- GitHub: `FinishCallback` lets each of its answers happen. Team membership does not change in the
  model, and the server looks at it only at login.
- Router wiring, defaults of the configuration, the home page, layout, logging, timestamps, the
  example client. That the comparison of tokens takes constant time.
- Two corners of the surroundings: a TLS variable that is set to something that is no Unicode, which
  `env::var(..).ok()` reads as unset (`src/config.rs:111-112`); a bearer request with no `Authorization`
  header or with another scheme, which is refused before any token is compared.
- Payloads in the console: that an approval may go to a registration newer than the one on the page.
- Redis losing data: the store outlives the servers.

## 7. Plan

1. Done: the records, the handlers, the abstract registry, listings and the console over them, limits,
   login and forms, the process and its certificate, token lists.
2. Done in proofs: section 4, every safety property of a passing run.
3. Next in proofs: an abstract specification of the console's decisions (a decision takes effect at
   one moment, or never) that OpsConsole implements; how far PendingCap may be exceeded when moves to
   pending are allowed (by at most the moves that were made); logins on several servers with affinity.
4. Left in the model: two payloads and a history of registrations, for a late HSET that writes an old
   registration's payload over a new one and for approvals of a newer registration. The code states no promise about either.
