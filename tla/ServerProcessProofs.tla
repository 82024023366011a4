------------------------- MODULE ServerProcessProofs -------------------------
(***************************************************************************)
(* Proofs about ServerProcess, for any number of renewals and any token    *)
(* lists.                                                                  *)
(***************************************************************************)
EXTENDS ServerProcess, BearerTokensProofs

-----------------------------------------------------------------------------
(***************************************************************************)
(* The inductive invariant.  How far `main` has come, what the process is  *)
(* doing about the files and what it presents go together: a process that  *)
(* serves either was asked for no TLS and has no such task, or is in       *)
(* production mode and presents a pair.                                    *)
(***************************************************************************)

FilesOK == /\ disk \in [cert : 0..MaxVersion, key : 0..MaxVersion]
           /\ latest \in Versions
           /\ read \in 0..MaxVersion
           /\ task = "key" => read # 0

ServedOK == served # Nil => served \in [cert : Versions, key : Versions]

PlainHttp == task = "none" /\ served = Nil /\ ~asked

Starts == task \in {"cert", "key"} /\ served = Nil /\ config.production

OverTls == task \in {"sleep", "cert", "key"} /\ served # Nil /\ config.production

PhaseOK == \/ phase = "starting" /\ task = "none" /\ served = Nil
           \/ phase = "configured" /\ Starts
           \/ phase = "serving" /\ (PlainHttp \/ OverTls)
           \/ phase = "exited" /\ task = "none" /\ served = Nil

IInv == FilesOK /\ ServedOK /\ PhaseOK

\* A pair is not an absent one.
LEMMA PairIsNotNil == \A v, w \in Nat : [cert |-> v, key |-> w] # Nil
BY NilAssumption

\* A failed load ends a process that has not started to serve and none other.
LEMMA LoadFailsKeeps ==
  ASSUME IInv, task \in {"cert", "key"}, LoadFails,
         UNCHANGED <<config, asked, list, files>>
  PROVE  IInv'
<1>1. FilesOK'
  BY MaxVersionAssumption DEF IInv, FilesOK, LoadFails, files
<1>2. ServedOK' /\ UNCHANGED served
  BY DEF IInv, ServedOK, LoadFails
<1>3. PhaseOK'
  <2>1. CASE phase = "configured"
    BY <2>1 DEF IInv, PhaseOK, LoadFails, Starts
  <2>2. CASE phase # "configured"
    BY <2>2 DEF IInv, PhaseOK, LoadFails, PlainHttp, OverTls
  <2> QED
    BY <2>1, <2>2
<1> QED
  BY <1>1, <1>2, <1>3 DEF IInv

\* The files change, the process does not.
LEMMA FilesChange ==
  ASSUME IInv, UNCHANGED process, latest' \in Versions,
         disk' \in [cert : 0..MaxVersion, key : 0..MaxVersion]
  PROVE  IInv'
BY DEF process, IInv, FilesOK, ServedOK, PhaseOK, PlainHttp, Starts, OverTls

\* Every step keeps the invariant.
LEMMA NextKeepsInvariant ==
  ASSUME IInv, [Next]_vars
  PROVE  IInv'
<1>1. CASE UNCHANGED vars
  BY <1>1 DEF vars, IInv, FilesOK, ServedOK, PhaseOK, PlainHttp, Starts, OverTls
<1>2. CASE Configure
  <2>1. PICK env \in Environments :
          /\ asked' = (env.cert \/ env.key)
          /\ \/ /\ ~env.valid \/ tls_config(env) = "error"
                /\ phase' = "exited"
                /\ UNCHANGED <<config, list, task>>
             \/ /\ env.valid
                /\ tls_config(env) = "some"
                /\ config' = [tls |-> TRUE, production |-> TRUE,
                              tokens |-> parse_tokens(env.tokens)]
                /\ list' = env.tokens
                /\ phase' = "configured"
                /\ task' = "cert"
             \/ /\ env.valid
                /\ tls_config(env) = "none"
                /\ config' = [tls |-> FALSE, production |-> env.production,
                              tokens |-> parse_tokens(env.tokens)]
                /\ list' = env.tokens
                /\ phase' = "serving"
                /\ UNCHANGED task
    BY <1>2 DEF Configure
  <2>2. tls_config(env) = "none" => ~env.cert /\ ~env.key
    BY <2>1 DEF tls_config, Environments
  <2>3. task = "none" /\ served = Nil
    BY <1>2 DEF Configure, IInv, PhaseOK
  <2>4. FilesOK' /\ ServedOK'
    BY <1>2, <2>1, <2>3 DEF Configure, files, IInv, FilesOK, ServedOK
  <2>5. served' = Nil
    BY <1>2, <2>3 DEF Configure
  <2>6. \/ phase' = "exited" /\ task' = "none"
        \/ phase' = "configured" /\ task' = "cert" /\ config'.production
        \/ phase' = "serving" /\ task' = "none" /\ ~asked'
    <3>1. CASE phase' = "exited" /\ UNCHANGED task
      BY <2>3, <3>1
    <3>2. CASE /\ phase' = "configured" /\ task' = "cert"
               /\ config' = [tls |-> TRUE, production |-> TRUE,
                             tokens |-> parse_tokens(env.tokens)]
      <4>1. config'.production
        BY <3>2
      <4> QED
        BY <3>2, <4>1
    <3>3. CASE /\ phase' = "serving" /\ UNCHANGED task
               /\ tls_config(env) = "none"
      <4>1. ~asked'
        BY <2>1, <2>2, <3>3, Zenon
      <4> QED
        BY <2>3, <3>3, <4>1
    <3> QED
      BY <2>1, <3>1, <3>2, <3>3, Zenon
  <2>7. PhaseOK'
    BY <2>5, <2>6 DEF PhaseOK, PlainHttp, Starts
  <2> QED
    BY <2>4, <2>7 DEF IInv
<1>3. CASE Wake
  BY <1>3 DEF Wake, files, IInv, FilesOK, ServedOK, PhaseOK, PlainHttp, Starts,
              OverTls
<1>4. CASE ReadCert
  <2>1. CASE disk.cert = 0 /\ LoadFails
    BY <1>4, <2>1, LoadFailsKeeps DEF ReadCert
  <2>2. CASE disk.cert # 0 /\ read' = disk.cert /\ task' = "key"
             /\ UNCHANGED <<phase, served>>
    <3>1. FilesOK' /\ ServedOK'
      BY <1>4, <2>2 DEF ReadCert, files, IInv, FilesOK, ServedOK
    <3>2. PhaseOK'
      BY <1>4, <2>2 DEF ReadCert, IInv, PhaseOK, PlainHttp, Starts, OverTls
    <3> QED
      BY <3>1, <3>2 DEF IInv
  <2> QED
    BY <1>4, <2>1, <2>2 DEF ReadCert
<1>5. CASE ReadKey
  <2>1. CASE LoadFails
    BY <1>5, <2>1, LoadFailsKeeps DEF ReadKey
  <2>2. CASE /\ disk.key = read
             /\ served' = [cert |-> read, key |-> disk.key]
             /\ phase' = "serving" /\ task' = "sleep" /\ read' = 0
    <3>1. read \in Versions
      BY <1>5, MaxVersionAssumption DEF ReadKey, IInv, FilesOK, Versions
    <3>2. served' # Nil
      BY <2>2, <3>1, PairIsNotNil, MaxVersionAssumption DEF Versions
    <3>3. FilesOK'
      BY <1>5, <2>2, MaxVersionAssumption DEF ReadKey, files, IInv, FilesOK
    <3>4. ServedOK'
      BY <2>2, <3>1 DEF ServedOK
    <3>5. PhaseOK'
      BY <1>5, <2>2, <3>2 DEF ReadKey, IInv, PhaseOK, PlainHttp, Starts, OverTls
    <3> QED
      BY <3>3, <3>4, <3>5 DEF IInv
  <2> QED
    BY <1>5, <2>1, <2>2 DEF ReadKey
<1>6. CASE Renew
  <2>1. latest' \in Versions /\ UNCHANGED disk
    BY <1>6, MaxVersionAssumption DEF Renew, IInv, FilesOK, Versions
  <2> QED
    BY <1>6, <2>1, FilesChange DEF Renew, IInv, FilesOK
<1>7. ASSUME NEW f \in {"cert", "key"}, Write(f) PROVE IInv'
  <2>1. latest \in 0..MaxVersion /\ 0 \in 0..MaxVersion
    BY MaxVersionAssumption DEF IInv, FilesOK, Versions
  <2>2. disk' \in [cert : 0..MaxVersion, key : 0..MaxVersion]
    BY <1>7, <2>1 DEF Write, IInv, FilesOK
  <2> QED
    BY <1>7, <2>2, FilesChange DEF Write, IInv, FilesOK
<1>8. CASE Restart
  BY <1>8, MaxVersionAssumption
     DEF Restart, files, IInv, FilesOK, ServedOK, PhaseOK
<1> QED
  BY <1>1, <1>2, <1>3, <1>4, <1>5, <1>6, <1>7, <1>8 DEF Next

\* The invariant holds in every reachable state.
LEMMA Invariance == Spec => []IInv
<1>1. Init => IInv
  BY MaxVersionAssumption DEF Init, IInv, FilesOK, ServedOK, PhaseOK, Versions
<1>2. IInv /\ [Next]_vars => IInv'
  BY NextKeepsInvariant
<1> QED
  BY <1>1, <1>2, PTL DEF Spec

\* Whoever sets a TLS variable gets HTTPS in production mode, or no server.
THEOREM HttpsIsNotLost == Spec => []HttpsWhenAsked
<1>1. IInv => HttpsWhenAsked
  BY DEF IInv, PhaseOK, PlainHttp, OverTls, HttpsWhenAsked, Https
<1> QED
  BY <1>1, Invariance, PTL

-----------------------------------------------------------------------------
(***************************************************************************)
(* The certificates only move forward: what is served is no newer than     *)
(* what is being read, that no newer than what is in the file, and that no *)
(* newer than the last renewal.                                            *)
(***************************************************************************)

Forward ==
  /\ disk.cert <= latest /\ read <= latest
  /\ disk.cert # 0 => read <= disk.cert
  /\ served # Nil => /\ served.cert <= latest
                     /\ read # 0 => served.cert <= read
                     /\ disk.cert # 0 => served.cert <= disk.cert

\* The versions are numbers.
LEMMA VersionsAreNumbers ==
  ASSUME IInv
  PROVE  /\ disk.cert \in Nat /\ read \in Nat /\ latest \in Nat
         /\ served # Nil => served.cert \in Nat
BY MaxVersionAssumption DEF IInv, FilesOK, ServedOK, Versions

\* Every step keeps them so.
LEMMA NextKeepsForward ==
  ASSUME IInv, Forward, [Next]_vars
  PROVE  Forward'
<1>1. /\ disk.cert \in Nat /\ read \in Nat /\ latest \in Nat
      /\ served # Nil => served.cert \in Nat
  BY VersionsAreNumbers
<1>2. ASSUME UNCHANGED <<served, disk, latest>>, read' = 0 \/ read' = read
      PROVE  Forward'
  BY <1>1, <1>2 DEF Forward
<1>3. CASE ReadCert
  <2>1. CASE LoadFails
    BY <1>2, <1>3, <2>1 DEF ReadCert, LoadFails, files
  <2>2. CASE /\ disk.cert # 0 /\ read' = disk.cert /\ UNCHANGED served
    BY <1>1, <1>3, <2>2 DEF ReadCert, files, Forward
  <2> QED
    BY <1>3, <2>1, <2>2 DEF ReadCert
<1>4. CASE ReadKey
  <2>1. CASE LoadFails
    BY <1>2, <1>4, <2>1 DEF ReadKey, LoadFails, files
  <2>2. CASE served' = [cert |-> read, key |-> disk.key] /\ read' = 0
    <3>1. served'.cert = read /\ UNCHANGED <<disk, latest>>
      BY <1>4, <2>2 DEF ReadKey, files
    <3> QED
      BY <1>1, <2>2, <3>1 DEF Forward
  <2> QED
    BY <1>4, <2>1, <2>2 DEF ReadKey
<1>5. CASE Renew
  BY <1>1, <1>5 DEF Renew, process, Forward
<1>6. ASSUME NEW f \in {"cert", "key"}, Write(f) PROVE Forward'
  <2>1. disk'.cert \in {disk.cert, 0, latest} /\ UNCHANGED <<latest, read, served>>
    BY <1>6 DEF Write, process, IInv, FilesOK
  <2> QED
    BY <1>1, <2>1 DEF Forward
<1>7. CASE Restart
  BY <1>1, <1>7 DEF Restart, files, Forward
<1>8. CASE Configure \/ Wake \/ UNCHANGED vars
  BY <1>2, <1>8 DEF Configure, Wake, files, vars
<1> QED
  BY <1>3, <1>4, <1>5, <1>6, <1>7, <1>8 DEF Next

\* They do in every reachable state.
LEMMA ForwardInvariance == Spec => []Forward
<1>1. Init => Forward
  BY DEF Init, Forward
<1>2. IInv /\ Forward /\ [Next]_vars => Forward'
  BY NextKeepsForward
<1> QED
  BY <1>1, <1>2, Invariance, PTL DEF Spec

\* No step but a restart stops a serving process, takes HTTPS away or brings an
\* older certificate back.
THEOREM ReloadsDoNoHarm == Spec => ReloadsKeepServing
<1> DEFINE Goes == phase = "serving" /\ ~Restart =>
                     /\ phase' = "serving"
                     /\ served # Nil => served' # Nil /\ served'.cert >= served.cert
<1>1. IInv /\ Forward /\ [Next]_vars => [Goes]_vars
  <2> SUFFICES ASSUME IInv, Forward, [Next]_vars, phase = "serving", ~Restart
               PROVE  /\ phase' = "serving"
                      /\ served # Nil => served' # Nil /\ served'.cert >= served.cert
    OBVIOUS
  <2>1. served # Nil => served.cert \in Nat
    BY VersionsAreNumbers
  <2>2. CASE UNCHANGED <<phase, served>>
    BY <2>1, <2>2
  <2>3. CASE ReadCert
    BY <2>2, <2>3 DEF ReadCert, LoadFails
  <2>4. CASE ReadKey
    <3>1. CASE LoadFails
      BY <2>2, <3>1 DEF LoadFails
    <3>2. CASE /\ served' = [cert |-> read, key |-> disk.key]
               /\ phase' = "serving"
      <4>1. read \in Nat /\ disk.key \in Nat /\ read # 0
        BY <2>4, MaxVersionAssumption DEF ReadKey, IInv, FilesOK
      <4>2. served' # Nil
        BY <3>2, <4>1, PairIsNotNil
      <4>3. served # Nil => served'.cert >= served.cert
        BY <2>1, <3>2, <4>1 DEF Forward
      <4> QED
        BY <3>2, <4>2, <4>3
    <3> QED
      BY <2>4, <3>1, <3>2 DEF ReadKey
  <2>5. CASE Wake \/ Renew \/ UNCHANGED vars \/ \E f \in {"cert", "key"} : Write(f)
    BY <2>2, <2>5 DEF Wake, Renew, Write, process, vars
  <2>6. ~Configure
    BY DEF Configure
  <2> QED
    BY <2>3, <2>4, <2>5, <2>6 DEF Next
<1> QED
  BY <1>1, Invariance, ForwardInvariance, PTL DEF Spec, ReloadsKeepServing

-----------------------------------------------------------------------------
(***************************************************************************)
(* The configuration.  What a process keeps of the token list is what the  *)
(* list it was started with is read as, for as long as it runs.            *)
(***************************************************************************)

Started == phase \in {"configured", "serving"}

ConfigOK == /\ asked \in BOOLEAN
            /\ list \in TokenLists \cup {Nil}
            /\ config \in [tls : BOOLEAN, production : BOOLEAN,
                           tokens : SUBSET Seq(STRING)] \cup {Nil}

ListKept == Started => /\ list \in TokenLists
                       /\ config.tokens = parse_tokens(list)

\* A token list is read as strings.
LEMMA TokensAreStrings ==
  ASSUME NEW l \in TokenLists
  PROVE  parse_tokens(l) \in SUBSET Seq(STRING)
<1>1. l \in Seq(STRING)
  BY TokenListsAssumption
<1> QED
  BY <1>1, ListsReadAsEntries

\* Every step keeps the configuration as it was read.
LEMMA NextKeepsConfig ==
  ASSUME IInv, ConfigOK, ListKept, [Next]_vars
  PROVE  ConfigOK' /\ ListKept'
<1>1. CASE Configure
  <2>1. PICK env \in Environments :
          /\ asked' = (env.cert \/ env.key)
          /\ \/ phase' = "exited" /\ UNCHANGED <<config, list>>
             \/ /\ list' = env.tokens
                /\ \E tls, production \in BOOLEAN :
                     config' = [tls |-> tls, production |-> production,
                                tokens |-> parse_tokens(env.tokens)]
    BY <1>1 DEF Configure, Environments
  <2>2. /\ env.cert \in BOOLEAN /\ env.key \in BOOLEAN
        /\ env.tokens \in TokenLists
    BY DEF Environments
  <2>3. parse_tokens(env.tokens) \in SUBSET Seq(STRING)
    BY <2>2, TokensAreStrings
  <2>4. ConfigOK'
    BY <2>1, <2>2, <2>3 DEF ConfigOK
  <2>5. ListKept'
    <3>1. CASE phase' = "exited"
      BY <3>1 DEF ListKept, Started
    <3>2. CASE /\ list' = env.tokens
               /\ \E tls, production \in BOOLEAN :
                    config' = [tls |-> tls, production |-> production,
                               tokens |-> parse_tokens(env.tokens)]
      <4>1. config'.tokens = parse_tokens(env.tokens)
        BY <3>2
      <4> QED
        BY <2>2, <3>2, <4>1 DEF ListKept
    <3> QED
      BY <2>1, <3>1, <3>2
  <2> QED
    BY <2>4, <2>5
<1>2. CASE Restart
  BY <1>2 DEF Restart, ConfigOK, ListKept, Started
<1>3. CASE UNCHANGED <<config, asked, list>> /\ (Started' => Started)
  BY <1>3 DEF ConfigOK, ListKept
<1>4. CASE Wake \/ Renew \/ UNCHANGED vars \/ \E f \in {"cert", "key"} : Write(f)
  BY <1>3, <1>4 DEF Wake, Renew, Write, process, vars, Started
<1>5. CASE ReadCert \/ ReadKey
  <2>1. Started
    BY <1>5 DEF ReadCert, ReadKey, IInv, PhaseOK, Started
  <2>2. UNCHANGED <<config, asked, list>>
    BY <1>5 DEF ReadCert, ReadKey
  <2> QED
    BY <1>3, <2>1, <2>2
<1> QED
  BY <1>1, <1>2, <1>4, <1>5 DEF Next

\* The configuration is as it was read in every reachable state.
LEMMA ConfigInvariance == Spec => [](ConfigOK /\ ListKept)
<1>1. Init => ConfigOK /\ ListKept
  BY DEF Init, ConfigOK, ListKept, Started
<1>2. IInv /\ (ConfigOK /\ ListKept) /\ [Next]_vars => (ConfigOK /\ ListKept)'
  BY NextKeepsConfig
<1> QED
  BY <1>1, <1>2, Invariance, PTL DEF Spec

\* Every reachable state is well typed.
THEOREM TypeCorrect == Spec => []TypeOK
<1>1. ConfigOK /\ IInv => TypeOK
  BY DEF ConfigOK, IInv, FilesOK, ServedOK, PhaseOK, PlainHttp, Starts, OverTls,
         TypeOK
<1> QED
  BY <1>1, Invariance, ConfigInvariance, PTL

\* A token passes exactly when it is an entry of the list the process was started
\* with, whatever the list is and whatever is presented.
THEOREM OnlyEntriesPassAlways == Spec => []OnlyEntriesPass
<1>1. ListKept => OnlyEntriesPass
  <2> SUFFICES ASSUME ListKept, phase = "serving", NEW t \in Presented
               PROVE  check_token(t, config.tokens) <=> IsEntry(t, list)
    BY DEF OnlyEntriesPass
  <2>1. list \in Seq(STRING) /\ config.tokens = parse_tokens(list)
    BY TokenListsAssumption DEF ListKept, Started
  <2>2. t \in parse_tokens(list) <=> IsEntry(t, list)
    BY <2>1, ListsReadAsEntries
  <2> QED
    BY <2>1, <2>2 DEF check_token
<1> QED
  BY <1>1, ConfigInvariance, PTL
=============================================================================
