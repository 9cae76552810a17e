----------------------------- MODULE CertReloader -----------------------------
(***************************************************************************)
(* NewCertReloader (pkg/common/certs.go): a goroutine watches a directory  *)
(* and, when its events have settled, a timer's callback loads tls.crt and *)
(* tls.key and publishes the pair.  The files are replaced one by one or   *)
(* together, and a callback that has begun cannot be called off: it may    *)
(* still be reading when the timer fires again.                            *)
(*                                                                         *)
(* A file is its version; a certificate fits the key of its version.       *)
(***************************************************************************)
EXTENDS Naturals

CONSTANTS
    Callbacks,  \* bound: callbacks that may run at the same time
    MaxVersion  \* bound: how often a file is replaced

ASSUME ReloaderAssumption == MaxVersion \in Nat

VARIABLES
    crt, key,   \* versions of tls.crt and tls.key
    events,     \* Write and Create events in w.Events
    missed,     \* was a change made that raised no event?
    loop,       \* the goroutine: "new", "running", "exited"; "failed": none was started
    timer,      \* is debounceTimer armed?
    running,    \* [Callbacks -> what a callback has read so far]
    overlapped, \* did the timer fire while a callback was running?
    cert        \* the pair certPtr holds

fileVars == <<crt, key, events, missed>>
cvars == <<fileVars, loop, timer, running, overlapped, cert>>

Versions == 0..MaxVersion
Idle == [pc |-> "idle", crt |-> 0, key |-> 0]
Busy == {c \in Callbacks : running[c] # Idle}

(* The caller has loaded the pair.                                         *)
CInit ==
    /\ crt = 0 /\ key = 0 /\ events = 0 /\ missed = FALSE
    /\ loop = "new" /\ timer = FALSE /\ overlapped = FALSE
    /\ running = [c \in Callbacks |-> Idle]
    /\ cert = [crt |-> 0, key |-> 0]

(* The watcher is created and added; an error returns no reloader.         *)
NewCertReloader ==
    /\ loop = "new"
    /\ loop' \in {"running", "failed"}
    /\ UNCHANGED <<fileVars, timer, running, overlapped, cert>>

-----------------------------------------------------------------------------
(* The files are replaced: tls.crt, tls.key, or both at a stroke (a        *)
(* remounted Secret).  An event follows if the directory is watched.       *)
Replace(newCrt, newKey) ==
    /\ newCrt \in Versions /\ newKey \in Versions
    /\ crt' = newCrt /\ key' = newKey
    /\ events' = IF loop = "running" THEN events + 1 ELSE events
    /\ missed' = (missed \/ loop # "running")
    /\ UNCHANGED <<loop, timer, running, overlapped, cert>>

ReplaceFiles ==
    \/ Replace(crt + 1, key) \/ Replace(crt, key + 1)
    \/ crt = key /\ Replace(crt + 1, key + 1)

(* The queue of the kernel overflows: an error on w.Errors, only logged.   *)
WatcherFails ==
    /\ loop = "running" /\ events > 0
    /\ events' = 0 /\ missed' = TRUE
    /\ UNCHANGED <<crt, key, loop, timer, running, overlapped, cert>>

-----------------------------------------------------------------------------
(* Faulty: an event that arrives during a reload is skipped.               *)
TakeEventUnlessBusy ==
    /\ loop = "running" /\ events > 0
    /\ events' = events - 1
    /\ timer' = (timer \/ Busy = {})
    /\ UNCHANGED <<crt, key, missed, loop, running, overlapped, cert>>

(* An event stops the timer, if it is armed, and arms a new one.           *)
TakeEvent ==
    /\ loop = "running" /\ events > 0
    /\ events' = events - 1
    /\ timer' = TRUE
    /\ UNCHANGED <<crt, key, missed, loop, running, overlapped, cert>>

(* The delay is over: the callback runs in a goroutine of its own.         *)
Fire(c) ==
    /\ timer /\ running[c] = Idle
    /\ timer' = FALSE
    /\ running' = [running EXCEPT ![c].pc = "crt"]
    /\ overlapped' = (overlapped \/ Busy # {})
    /\ UNCHANGED <<fileVars, loop, cert>>

(* tls.LoadX509KeyPair reads one file, then the other ...                  *)
ReadCrt(c) ==
    /\ running[c].pc = "crt"
    /\ running' = [running EXCEPT ![c].pc = "key", ![c].crt = crt]
    /\ UNCHANGED <<fileVars, loop, timer, overlapped, cert>>

ReadKey(c) ==
    /\ running[c].pc = "key"
    /\ running' = [running EXCEPT ![c].pc = "store", ![c].key = key]
    /\ UNCHANGED <<fileVars, loop, timer, overlapped, cert>>

Pair(r) == [crt |-> r.crt, key |-> r.key]

(* Faulty: the two files are parsed apart and never compared.              *)
StoreUnmatched(c) ==
    /\ running[c].pc = "store"
    /\ running' = [running EXCEPT ![c] = Idle]
    /\ cert' = Pair(running[c])
    /\ UNCHANGED <<fileVars, loop, timer, overlapped>>

(* ... and is an error if they do not match: the old pair stays.           *)
Store(c) ==
    /\ running[c].pc = "store"
    /\ running' = [running EXCEPT ![c] = Idle]
    /\ cert' = IF running[c].crt = running[c].key THEN Pair(running[c]) ELSE cert
    /\ UNCHANGED <<fileVars, loop, timer, overlapped>>

(* The context is done; an armed timer fires all the same.                 *)
WatchExits ==
    /\ loop = "running"
    /\ loop' = "exited"
    /\ UNCHANGED <<fileVars, timer, running, overlapped, cert>>

-----------------------------------------------------------------------------
CNext ==
    \/ NewCertReloader \/ ReplaceFiles \/ WatcherFails \/ TakeEvent \/ WatchExits
    \/ \E c \in Callbacks : Fire(c) \/ ReadCrt(c) \/ ReadKey(c) \/ Store(c)

(* The goroutine, the timer and its callbacks run.                         *)
Fairness ==
    /\ WF_cvars(TakeEvent)
    /\ WF_cvars(\E c \in Callbacks : Fire(c))
    /\ \A c \in Callbacks : WF_cvars(ReadCrt(c) \/ ReadKey(c) \/ Store(c))

CSpec == CInit /\ [][CNext]_cvars /\ Fairness

-----------------------------------------------------------------------------
(* The files, the timer and its callbacks keep their types.                *)
CTypeOK ==
    /\ crt \in Versions /\ key \in Versions /\ events \in 0..2 * MaxVersion
    /\ missed \in BOOLEAN /\ timer \in BOOLEAN /\ overlapped \in BOOLEAN
    /\ loop \in {"new", "running", "exited", "failed"}
    /\ running \in [Callbacks -> [pc : {"idle", "crt", "key", "store"},
                                  crt : Versions, key : Versions]]
    /\ cert \in [crt : Versions, key : Versions]

(* What replaces the pair in use is a certificate with its own key - while *)
(* the files are replaced between the reads, too - and, as long as no two  *)
(* callbacks overlapped, a newer one.                                      *)
ReplacedByNewerPair ==
    [][cert' # cert => /\ cert'.crt = cert'.key
                       /\ overlapped \/ cert'.crt > cert.crt]_cvars

(* Once the files are left alone with a matching pair, that pair is served *)
(* for good, however often a reload met a half-replaced one before; unless *)
(* no event told of the change, the reloader was ended, or two callbacks   *)
(* overlapped.                                                             *)
SettledPairServed ==
    <>[](\/ crt # key \/ cert = [crt |-> crt, key |-> key]
         \/ missed \/ loop # "running" \/ overlapped)

-----------------------------------------------------------------------------
(* A statement of the code's comments that the code does not implement:    *)
(* the callback "runs after the delay with no new events".  Stop does not  *)
(* wait for a callback that has begun: it may publish the old pair after   *)
(* the next one has published the new.                                     *)
NewestPairKept ==
    <>[](\/ crt # key \/ cert = [crt |-> crt, key |-> key] \/ missed \/ loop # "running")
=============================================================================
