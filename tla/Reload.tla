------------------------------- MODULE Reload -------------------------------
(***************************************************************************)
(* Configuration, start-up and reload of 3d_server: main, InitConfigure,   *)
(* SettingsAndPrint and the signal handlers of RRMode.cpp, the key map of  *)
(* ConfigFile, and the code that uses worker.thread.num after a reload may *)
(* have changed it: the loops of InitThreads, RegisterThreadInitialized    *)
(* and the round robin of DispatchSfdToWorker.                             *)
(*                                                                         *)
(* The lock and condition variable of start-up are one step each here; see *)
(* module WorkerStartup.  remote.listen.port is read once, by bind(), and  *)
(* is left out.  A file that was there at the start stays there; its keys  *)
(* may come, go and change.                                                *)
(***************************************************************************)
EXTENDS ConfigFile

CONSTANTS
    Files,              \* versions of conf/config.ini
    FirstFiles,         \* those the server may be started with
    DefaultThreadNum,   \* 4 in SettingsAndPrint
    DefaultTimeout,     \* 70 in SettingsAndPrint
    UintRange,          \* 2^32, the numbers of an unsigned int
    StartsAtRoot        \* is the server started in the directory "/"?

Threads == "worker.thread.num"
Timeout == "client.heartbeat.timeout.s"

ASSUME ReloadAssumption ==
    /\ {Threads, Timeout} \subseteq Keys
    /\ FirstFiles \subseteq Files
    /\ \A f \in Files : f.lines \in Seq(FileLine)
    /\ Garbage \subseteq Int
    /\ DefaultThreadNum \in Int
    /\ DefaultTimeout \in Int
    /\ UintRange \in Nat \ {0}
    /\ StartsAtRoot \in BOOLEAN

VARIABLES
    contents,           \* ConfigFile::myContents
    thread_num_,
    client_heartbeat_timeout_,
    at_root,            \* is the working directory "/"?
    main,               \* where the main thread is
    vec_size,           \* vec_libevent_thread_.size()
    created,            \* worker threads created
    init_count_,
    last_thread_,
    process,            \* "up" or how it ended
    written,            \* history: what the loaded files say of each key
    spoiled             \* history: has a load spoiled the pool (see Spoils)?

confVars == <<contents, thread_num_, client_heartbeat_timeout_, written, spoiled>>
poolVars == <<vec_size, created, init_count_, last_thread_>>

vars == <<confVars, at_root, main, poolVars, process>>

TypeOK ==
    /\ DOMAIN contents = Keys
    /\ thread_num_ \in Nat
    /\ client_heartbeat_timeout_ \in Int
    /\ at_root \in BOOLEAN
    /\ main \in {"load", "daemon", "setup", "create", "wait", "serving"}
    /\ vec_size \in Nat
    /\ created \in 0 .. vec_size
    /\ init_count_ \in 0 .. created
    /\ last_thread_ \in -1 .. vec_size - 1
    /\ process \in {"up", "unstarted", "failed", "aborted", "terminated"}
    /\ DOMAIN written = Keys
    /\ spoiled \in BOOLEAN

\* CGlobalSettings is zero at first.
Init ==
    /\ contents = Empty
    /\ thread_num_ = 0
    /\ client_heartbeat_timeout_ = 0
    /\ at_root = StartsAtRoot
    /\ main = "load"
    /\ vec_size = 0
    /\ created = 0
    /\ init_count_ = 0
    /\ last_thread_ = -1
    /\ process = "up"
    /\ written = Empty
    /\ spoiled = FALSE

-----------------------------------------------------------------------------
(* Configuration. *)

\* The file is looked for under the current directory, and is only in the one
\* the server was started in.
FileFound == at_root = StartsAtRoot

\* The map a file is loaded into, and a variant that starts with an empty one.
EmptyMap == Empty

ConfigMap == contents

LoadConfiguration(f) ==
    /\ contents' = Load(ConfigMap, f)
    /\ written' = [k \in Keys |-> IF Written(f, k) = NONE THEN written[k] ELSE Written(f, k)]

\* thread_num_ is unsigned: a negative number becomes a huge one.
Unsigned(n) == n % UintRange

\* History: there are to be no workers, or more than before although the vector
\* of InitThreads is full.
Spoils ==
    \/ thread_num_' = 0
    \/ main \in {"create", "wait", "serving"} /\ thread_num_' > thread_num_

\* Every key, or its default, is copied into the settings.
SettingsAndPrint ==
    /\ thread_num_' \in {Unsigned(n) : n \in read(contents', Threads, DefaultThreadNum)}
    /\ client_heartbeat_timeout_' \in read(contents', Timeout, DefaultTimeout)
    /\ spoiled' = (spoiled \/ Spoils)

-----------------------------------------------------------------------------
(* main and InitThreads. *)

\* main up to daemon(): whether MySQL can be reached is only logged; then the
\* configuration is loaded.
FirstLoad(f) ==
    /\ main = "load"
    /\ FileFound
    /\ LoadConfiguration(f)
    /\ SettingsAndPrint
    /\ main' = "daemon"
    /\ UNCHANGED <<at_root, poolVars, process>>

\* daemon(0, 0) changes the working directory to "/"; then the handlers are
\* installed.
Daemon ==
    /\ main = "daemon"
    /\ at_root' = TRUE
    /\ main' = "setup"
    /\ UNCHANGED <<confVars, poolVars, process>>

\* There is no file to load, or daemon() or signal() fails: main exits.
StartFails ==
    /\ main \in {"load", "daemon"}
    /\ process' = "unstarted"
    /\ UNCHANGED <<confVars, at_root, main, poolVars>>

\* One turn of each loop of InitThreads; both read thread_num_ every time.
SetupThread ==
    /\ main = "setup"
    /\ IF vec_size < thread_num_
       THEN vec_size' = vec_size + 1 /\ UNCHANGED main
       ELSE main' = "create" /\ UNCHANGED vec_size
    /\ UNCHANGED <<confVars, at_root, created, init_count_, last_thread_,
                   process>>

\* The condition of the second loop.  Faulty variant: one turn too many.
OneMoreToCreate == created <= thread_num_

MoreToCreate == created < thread_num_

\* vec_libevent_thread_.at(i) throws when the vector is too short.
CreateWorker ==
    /\ main = "create"
    /\ MoreToCreate
    /\ IF created < vec_size
       THEN created' = created + 1 /\ UNCHANGED process
       ELSE process' = "aborted" /\ UNCHANGED created
    /\ UNCHANGED <<confVars, at_root, main, vec_size, init_count_,
                   last_thread_>>

WaitForThreads ==
    /\ main = "create"
    /\ ~MoreToCreate
    /\ main' = "wait"
    /\ UNCHANGED <<confVars, at_root, poolVars, process>>

\* A worker counts itself in and signals when the count equals int(thread_num_).
AsInt(n) == IF n < UintRange \div 2 THEN n ELSE n - UintRange

RegisterThread ==
    /\ init_count_ < created
    /\ init_count_' = init_count_ + 1
    /\ main' = IF main = "wait" /\ init_count_' = AsInt(thread_num_)
               THEN "serving" ELSE main
    /\ UNCHANGED <<confVars, at_root, vec_size, created, last_thread_,
                   process>>

\* The round robin.  Faulty variant: it does not wrap.
NextThreadNoWrap == last_thread_ + 1

NextThread == (last_thread_ + 1) % thread_num_

\* DispatchSfdToWorker: % 0 traps, and at(tid) throws past the end.
Dispatch ==
    /\ main = "serving"
    /\ IF thread_num_ > 0 /\ NextThread < vec_size
       THEN last_thread_' = NextThread /\ UNCHANGED process
       ELSE process' = "aborted" /\ UNCHANGED last_thread_
    /\ UNCHANGED <<confVars, at_root, main, vec_size, created, init_count_>>

-----------------------------------------------------------------------------
(* The signal handlers, once main has installed them. *)

HandlersInstalled == main \notin {"load", "daemon"}

\* SIGUSR1 looks for conf/config.ini in the working directory again and exits
\* when it is not there.
SigUsr(f) ==
    /\ HandlersInstalled
    /\ IF FileFound
       THEN LoadConfiguration(f) /\ SettingsAndPrint /\ UNCHANGED process
       ELSE process' = "failed" /\ UNCHANGED confVars
    /\ UNCHANGED <<at_root, main, poolVars>>

\* SIGTERM deletes printerToMySQL and exits.
SigTerm ==
    /\ HandlersInstalled
    /\ process' = "terminated"
    /\ UNCHANGED <<confVars, at_root, main, poolVars>>

-----------------------------------------------------------------------------

Next ==
    /\ process = "up"
    /\ \/ \E f \in FirstFiles : FirstLoad(f)
       \/ Daemon
       \/ StartFails
       \/ SetupThread
       \/ CreateWorker
       \/ WaitForThreads
       \/ RegisterThread
       \/ Dispatch
       \/ \E f \in Files : SigUsr(f)
       \/ SigTerm

Spec == Init /\ [][Next]_vars

-----------------------------------------------------------------------------
(***************************************************************************)
(* A connection is only ever put into the queue of a worker that has been  *)
(* started, whenever SIGUSR1 rewrites worker.thread.num under the loops of *)
(* InitThreads and the round robin, unless a load spoiled the pool: the    *)
(* number may grow until the vector is set up, and fall at any time.       *)
(***************************************************************************)
DispatchHasThread == ~spoiled => last_thread_ < created

(***************************************************************************)
(* Nor do such reloads make the pool's own arithmetic kill the process: no *)
(* at() past the end of vec_libevent_thread_, no remainder by zero.        *)
(***************************************************************************)
AbortsOnlyIfSpoiled == process = "aborted" => spoiled

(***************************************************************************)
(* "reload the application's configuration file (only the connection       *)
(* timeout)" (RRMode.cpp:102): so no edit of the file reaches the round    *)
(* robin of a server that serves, and makes it kill the process.           *)
(***************************************************************************)
ServingSurvivesReload == main = "serving" => process # "aborted"

(***************************************************************************)
(* "reload the configuration" (RRMode.cpp:102): SIGUSR1 leaves the server  *)
(* running.                                                                *)
(***************************************************************************)
ReloadKeepsRunning == process # "failed"

(***************************************************************************)
(* After every load each setting is the number that the files loaded so    *)
(* far give it, the latest that has the key, and the default when none has *)
(* it: whatever comments, blank lines, continuation lines, repeated keys   *)
(* and missing last newlines the parser of ConfigFile has met.  Nothing is *)
(* said of a key whose value is no number: string_as_T then returns zero,  *)
(* or, when the value is empty, an int that nobody has initialized.        *)
(***************************************************************************)
IsNumber(value) == value # NONE /\ value # <<>> /\ Head(value) # WORD

Settled(k) == written[k] = NONE \/ IsNumber(written[k])

Number(k, default) == IF written[k] = NONE THEN default ELSE Head(written[k])

SettingsComeFromFile ==
    main # "load" =>
        /\ Settled(Threads) => thread_num_ = Unsigned(Number(Threads, DefaultThreadNum))
        /\ Settled(Timeout) => client_heartbeat_timeout_ = Number(Timeout, DefaultTimeout)

=============================================================================
