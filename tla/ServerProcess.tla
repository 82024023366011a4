--------------------------- MODULE ServerProcess ---------------------------
(***************************************************************************)
(* A server process around its routes: it reads its configuration, the     *)
(* token lists of BearerTokens among it, loads the TLS certificate and key,*)
(* serves, and reloads the two files every hour while whoever renews the   *)
(* certificate replaces them one after the other.  The files, the library  *)
(* that reads them and the process's supervisor are external.              *)
(***************************************************************************)
EXTENDS Integers, BearerTokens

CONSTANTS
  MaxVersion,  \* bound: renewals of the certificate, the first one included
  TokenLists,  \* values of API_TOKENS, or of CONFIRM_TOKENS
  Presented,   \* what requests carry after "Bearer "
  Nil

ASSUME MaxVersionAssumption == MaxVersion \in Nat \ {0}
ASSUME NilAssumption == Nil \notin Int /\ Nil \notin [cert : Nat, key : Nat]
ASSUME TokenListsAssumption == TokenLists \subseteq Seq(STRING)

VARIABLES
  phase,   \* how far `main` has come
  config,  \* what it keeps of the configuration once that is read
  asked,   \* history: whether either TLS variable was set
  list,    \* history: the token list it was started with
  disk,    \* the version in each of the two files, 0 when it is not readable
  latest,  \* the version of the certificate that was renewed last
  task,    \* what the process is doing about the files
  read,    \* the certificate that was read and whose key is read next
  served   \* the pair the server presents, Nil when there is none

vars == <<phase, config, asked, list, disk, latest, task, read, served>>

Versions == 1..MaxVersion

\* What the environment says, as far as it decides how the process starts:
\* `valid` is that every other variable is there and parses, REDIS_URL and the
\* connection to Redis included.
Environments == [cert : BOOLEAN, key : BOOLEAN, production : BOOLEAN,
                 valid : BOOLEAN, tokens : TokenLists]

TypeOK == /\ phase \in {"starting", "configured", "serving", "exited"}
          /\ config \in [tls : BOOLEAN, production : BOOLEAN,
                         tokens : SUBSET Seq(STRING)] \cup {Nil}
          /\ asked \in BOOLEAN
          /\ list \in TokenLists \cup {Nil}
          /\ disk \in [cert : 0..MaxVersion, key : 0..MaxVersion]
          /\ latest \in Versions
          /\ task \in {"none", "sleep", "cert", "key"}
          /\ read \in 0..MaxVersion
          /\ served \in [cert : Versions, key : Versions] \cup {Nil}

Init == /\ phase = "starting"
        /\ config = Nil
        /\ asked = FALSE
        /\ list = Nil
        /\ disk = [cert |-> 1, key |-> 1]
        /\ latest = 1
        /\ task = "none"
        /\ read = 0
        /\ served = Nil

process == <<phase, config, asked, list, task, read, served>>
files == <<disk, latest>>

-----------------------------------------------------------------------------

\* Mutant: a lone TLS variable is passed over.
tls_config_Lenient(env) == IF env.cert /\ env.key THEN "some" ELSE "none"

\* TLS_CERT and TLS_KEY: both, neither, or an error.
tls_config(env) == CASE env.cert /\ env.key   -> "some"
                     [] ~env.cert /\ ~env.key -> "none"
                     [] OTHER                 -> "error"

\* Config::from_env, Storage::new and the listener; each failure ends the
\* process.  With TLS, production mode is forced.
Configure ==
  /\ phase = "starting"
  /\ \E env \in Environments :
       /\ asked' = (env.cert \/ env.key)
       /\ \/ /\ ~env.valid \/ tls_config(env) = "error"
             /\ phase' = "exited"
             /\ UNCHANGED <<config, list, task>>
          \/ /\ env.valid
             /\ tls_config(env) = "some"
             /\ config' = [tls |-> TRUE, production |-> TRUE,
                           tokens |-> parse_tokens(env.tokens)]
             /\ list' = env.tokens
             /\ phase' = "configured"
             /\ task' = "cert"
          \/ /\ env.valid
             /\ tls_config(env) = "none"
             /\ config' = [tls |-> FALSE, production |-> env.production,
                           tokens |-> parse_tokens(env.tokens)]
             /\ list' = env.tokens
             /\ phase' = "serving"
             /\ UNCHANGED task
  /\ UNCHANGED <<read, served, files>>

\* Mutant: the first failed reload ends the task.
LoadFails_EndsTask ==
  IF phase = "configured"
    THEN phase' = "exited" /\ task' = "none" /\ read' = 0 /\ UNCHANGED served
    ELSE task' = "none" /\ read' = 0 /\ UNCHANGED <<phase, served>>

\* Mutant: a failed reload ends the process, as at the start.
LoadFails_Exits ==
  phase' = "exited" /\ task' = "none" /\ read' = 0 /\ UNCHANGED served

\* A load that fails: at the start it ends the process, later it is logged and
\* the task sleeps until the next one.
LoadFails ==
  IF phase = "configured"
    THEN phase' = "exited" /\ task' = "none" /\ read' = 0 /\ UNCHANGED served
    ELSE task' = "sleep" /\ read' = 0 /\ UNCHANGED <<phase, served>>

\* An hour is over.
Wake == /\ task = "sleep"
        /\ task' = "cert"
        /\ UNCHANGED <<phase, config, asked, list, read, served, files>>

\* Mutant: a certificate file that cannot be read is passed over.
ReadCert_PassesOver ==
  /\ task = "cert"
  /\ read' = disk.cert
  /\ task' = "key"
  /\ UNCHANGED <<phase, served, config, asked, list, files>>

\* The certificate file is read first ...
ReadCert ==
  /\ task = "cert"
  /\ \/ disk.cert = 0 /\ LoadFails
     \/ /\ disk.cert # 0
        /\ read' = disk.cert
        /\ task' = "key"
        /\ UNCHANGED <<phase, served>>
  /\ UNCHANGED <<config, asked, list, files>>

\* ... and the key file after it.  That a key which is not the certificate's is
\* refused is external: rustls compares them, and the process has only its
\* error.  The first pair loaded starts the server and its task.
ReadKey ==
  /\ task = "key"
  /\ \/ disk.key # read /\ LoadFails
     \/ /\ disk.key = read
        /\ served' = [cert |-> read, key |-> disk.key]
        /\ phase' = "serving"
        /\ task' = "sleep"
        /\ read' = 0
  /\ UNCHANGED <<config, asked, list, files>>

-----------------------------------------------------------------------------

Whole(v) == disk = [cert |-> v, key |-> v]

\* A renewal begins once the one before is written.
Renew == /\ latest < MaxVersion
         /\ Whole(latest)
         /\ latest' = latest + 1
         /\ UNCHANGED <<disk, process>>

\* A file is emptied, or holds the new version.
Write(f) == /\ disk[f] # latest
            /\ \/ disk' = [disk EXCEPT ![f] = latest]
               \/ disk[f] # 0 /\ disk' = [disk EXCEPT ![f] = 0]
            /\ UNCHANGED <<latest, process>>

\* The process ends, or has ended, and is started again.
Restart == /\ phase # "starting"
           /\ phase' = "starting"
           /\ config' = Nil
           /\ asked' = FALSE
           /\ list' = Nil
           /\ task' = "none"
           /\ read' = 0
           /\ served' = Nil
           /\ UNCHANGED files

Next == \/ Configure
        \/ Wake
        \/ ReadCert
        \/ ReadKey
        \/ Renew
        \/ \E f \in {"cert", "key"} : Write(f)
        \/ Restart

Spec == Init /\ [][Next]_vars

\* The hour passes and a file is read in the end.
FairSpec == Spec /\ WF_vars(Wake) /\ WF_vars(ReadCert) /\ WF_vars(ReadKey)

-----------------------------------------------------------------------------

Https == phase = "serving" /\ served # Nil

\* Whoever sets a TLS variable gets HTTPS or no server: a lone variable, a
\* missing file or a key that does not fit never ends in plain HTTP, and over
\* HTTPS the cookies are the secure ones of production mode.
HttpsWhenAsked == phase = "serving" => /\ asked => Https
                                       /\ Https => config.production

\* Reloading does no harm: a server that serves goes on, over HTTPS if it did,
\* until it is stopped, and never goes back to an older certificate, whatever
\* half-written files its reloads met and whenever the renewals came.
ReloadsKeepServing ==
  [][phase = "serving" /\ ~Restart =>
       /\ phase' = "serving"
       /\ served # Nil => served' # Nil /\ served'.cert >= served.cert]_vars

\* A token passes exactly when it is an entry of the list; in particular no
\* list, empty, blank or with stray commas, lets an empty token pass
\* (parse_tokens: "a trailing comma is harmless").
OnlyEntriesPass ==
  phase = "serving" =>
    \A t \in Presented : check_token(t, config.tokens) <=> IsEntry(t, list)

\* README.md, "automatic hourly certificate reload": once a renewal is through,
\* a server that goes on presents the new certificate in the end, also when
\* earlier reloads met half-written files.
RenewalsAreServed ==
  \A v \in Versions :
    <>[](Whole(v) /\ latest = v /\ Https) => <>[](served = [cert |-> v, key |-> v])
=============================================================================
