---------------------------- MODULE YdotoolProbe ----------------------------
(***************************************************************************)
(* Which ydotool the server trusts (src/src/ydotool.rs). Before every      *)
(* ydotool command ensure_supported() looks up the executable in PATH,     *)
(* takes the fingerprint of its file and asks a cache; only when that has  *)
(* no answer for the fingerprint it runs a probe: the help text, and one   *)
(* command per feature, each sent to a throw-away socket.                  *)
(*                                                                         *)
(* Calls run on blocking threads. ydotool may be installed, replaced or    *)
(* removed between any two of their steps, and any command may fail.       *)
(***************************************************************************)
EXTENDS Integers, Sequences, FiniteSets

CONSTANTS
  Call,         \* threads that may ask at the same time
  Dirs,         \* the number of directories in PATH
  Bases,        \* the number of directories a probe socket may be bound in
  Features,     \* the features a raw-event ydotool must have, in probe order
  Builds,       \* the ydotools there are: [help, raw, does]
  Ttl,          \* FAILED_PROBE_CACHE_TTL, in ticks
  MaxFiles,     \* how often a file is installed in a behaviour
  MaxMishaps,   \* how often a command or a socket fails for another reason
  Nobody

ASSUME YdotoolProbeAssumption ==
  /\ Dirs \in Nat \ {0} /\ Bases \in Nat \ {0}
  /\ Features \in Seq(STRING) /\ Len(Features) > 0
  /\ Builds \subseteq [help : 0..2, raw : BOOLEAN, does : SUBSET STRING]
  /\ Ttl \in Nat \ {0} /\ MaxFiles \in Nat /\ MaxMishaps \in Nat
  /\ Nobody \notin Call

VARIABLES
  file,      \* the file in each directory of PATH, 0 when there is none
  build,     \* which ydotool each file is; the files are numbered as they come
  mishaps,   \* the other failures so far
  at,        \* each call's step
  dir,       \* where it looks, then where it found the executable, 0 nowhere
  key,       \* its cache key
  mutex,     \* the call inside the cache's mutex
  cache,     \* what the last probe found, if there was one
  step,      \* the probe command under way: 1 and 2 are the help, then a feature
  base,      \* the base directory its socket is tried in
  sockets,   \* the probe directories on disk
  saw,       \* the files the probe under way has run
  answer     \* what each call is told

fileVars  == <<file, build>>
probeVars == <<step, base, sockets, saw>>
vars == <<file, build, mishaps, at, dir, key, mutex, cache, step, base, sockets, saw, answer>>

(* The fingerprint of a file names its directory and is never seen again   *)
(* once the file is gone: it has the inode's change time. SearchPath is    *)
(* the key of a call that has no fingerprint.                              *)
SearchPath == <<0, 0>>
Stamp(d)   == <<d, file[d]>>

Nothing    == [key |-> SearchPath, ok |-> FALSE, age |-> Ttl, saw |-> {}]
Files      == 1..Len(build)
LastStep   == Len(Features) + 2
Goto(c, s) == at' = [at EXCEPT ![c] = s]

(* The file passes every command of the probe.                             *)
Capable(f) ==
  /\ build[f].help # 0 /\ build[f].raw
  /\ \A i \in 1..Len(Features) : Features[i] \in build[f].does

Init ==
  /\ file = [d \in 1..Dirs |-> 0] /\ build = <<>> /\ mishaps = 0
  /\ at = [c \in Call |-> "idle"]
  /\ dir = [c \in Call |-> 0]
  /\ key = [c \in Call |-> SearchPath]
  /\ mutex = Nobody /\ cache = Nothing
  /\ step = 0 /\ base = 0 /\ sockets = {} /\ saw = {}
  /\ answer = [c \in Call |-> "none"]

-----------------------------------------------------------------------------
(* ensure_supported() up to the cache.                                     *)
Start(c) ==
  /\ at[c] = "idle"
  /\ Goto(c, "resolve")
  /\ dir' = [dir EXCEPT ![c] = 1]
  /\ answer' = [answer EXCEPT ![c] = "none"]
  /\ UNCHANGED <<fileVars, mishaps, key, mutex, cache, probeVars>>

(* resolve_executable_with() takes the first directory that has an         *)
(* executable when it is looked at.                                        *)
Resolve(c) ==
  /\ at[c] = "resolve"
  /\ \/ /\ file[dir[c]] # 0
        /\ Goto(c, "fingerprint")
        /\ UNCHANGED <<dir, key>>
     \/ /\ file[dir[c]] = 0 /\ dir[c] < Dirs
        /\ dir' = [dir EXCEPT ![c] = @ + 1]
        /\ UNCHANGED <<at, key>>
     \/ /\ file[dir[c]] = 0 /\ dir[c] = Dirs
        /\ dir' = [dir EXCEPT ![c] = 0]
        /\ key' = [key EXCEPT ![c] = SearchPath]
        /\ Goto(c, "lock")
  /\ UNCHANGED <<fileVars, mishaps, mutex, cache, probeVars, answer>>

(* executable_fingerprint(): the file may have gone, or be another one.    *)
Fingerprint(c) ==
  /\ at[c] = "fingerprint"
  /\ key' = [key EXCEPT ![c] = IF file[dir[c]] # 0 THEN Stamp(dir[c]) ELSE SearchPath]
  /\ Goto(c, "lock")
  /\ UNCHANGED <<fileVars, mishaps, dir, mutex, cache, probeVars, answer>>

-----------------------------------------------------------------------------
(* cached_result_or_probe().                                               *)
Lock(c) ==
  /\ at[c] = "lock" /\ mutex = Nobody
  /\ mutex' = c
  /\ Goto(c, "look")
  /\ UNCHANGED <<fileVars, mishaps, dir, key, cache, probeVars, answer>>

(* Mistake: a failure is kept like a success.                              *)
HitKept(c) == cache.key = key[c] /\ (cache.ok \/ cache.age <= Ttl)

(* A success is good for as long as its key, a failure for Ttl.            *)
Hit(c) == cache.key = key[c] /\ (cache.ok \/ cache.age < Ttl)

Verdict(ok) == IF ok THEN "ok" ELSE "failed"

(* The call is over and lets go of the mutex.                              *)
Return(c, ok) ==
  /\ answer' = [answer EXCEPT ![c] = Verdict(ok)]
  /\ mutex' = Nobody
  /\ dir' = [dir EXCEPT ![c] = 0]
  /\ key' = [key EXCEPT ![c] = SearchPath]
  /\ Goto(c, "idle")

Serve(c) ==
  /\ at[c] = "look" /\ Hit(c)
  /\ Return(c, cache.ok)
  /\ UNCHANGED <<fileVars, mishaps, cache, probeVars>>

(* Mistake: the fingerprint is taken when the result is stored.            *)
StoreUnderNew(c, ok, ran) ==
  /\ cache' = [key |-> IF dir[c] # 0 /\ file[dir[c]] # 0 THEN Stamp(dir[c]) ELSE SearchPath,
               ok |-> ok, age |-> 0, saw |-> ran]
  /\ Return(c, ok)
  /\ step' = 0 /\ base' = 0 /\ saw' = {}

(* The result of a probe that ran these files is stored under the key the  *)
(* call came with, and given to it.                                        *)
Store(c, ok, ran) ==
  /\ cache' = [key |-> key[c], ok |-> ok, age |-> 0, saw |-> ran]
  /\ Return(c, ok)
  /\ step' = 0 /\ base' = 0 /\ saw' = {}

(* probe_executable(): without an executable there is nothing to run.      *)
Probe(c) ==
  /\ at[c] = "look" /\ ~Hit(c)
  /\ \/ /\ dir[c] = 0
        /\ Store(c, FALSE, {})
     \/ /\ dir[c] # 0
        /\ step' = 1
        /\ Goto(c, "help")
        /\ UNCHANGED <<dir, key, mutex, cache, base, saw, answer>>
  /\ UNCHANGED <<fileVars, mishaps, sockets>>

-----------------------------------------------------------------------------
(* probe_with(): a command runs whatever file is there by now.             *)
Ran(c) == IF file[dir[c]] # 0 THEN saw \cup {Stamp(dir[c])} ELSE saw

(* classify_help() knows the file by this help text or the one before.     *)
Known(f) == f # 0 /\ build[f].help \in 1..step

Help(c) ==
  /\ at[c] = "help"
  /\ LET f == file[dir[c]]
     IN  \/ /\ Known(f) /\ build[f].raw
            /\ step' = 3 /\ base' = 1 /\ saw' = Ran(c)
            /\ Goto(c, "directory")
            /\ UNCHANGED <<dir, key, mutex, cache, answer>>
         \/ /\ f # 0 /\ ~Known(f) /\ step = 1
            /\ step' = 2 /\ saw' = Ran(c)
            /\ UNCHANGED <<at, dir, key, mutex, base, cache, answer>>
         \/ /\ \/ Known(f) /\ ~build[f].raw
               \/ ~Known(f) /\ (f = 0 \/ step = 2)
            /\ Store(c, FALSE, Ran(c))
  /\ UNCHANGED <<fileVars, mishaps, sockets>>

(* A base that is not private, has no room for the path or cannot hold the *)
(* directory is passed over; without one left the probe fails.             *)
NextBase(c) ==
  \/ /\ base < Bases
     /\ base' = base + 1
     /\ Goto(c, "directory")
     /\ UNCHANGED <<dir, key, mutex, cache, step, saw, answer>>
  \/ /\ base = Bases
     /\ Store(c, FALSE, saw)

Mishap == mishaps < MaxMishaps /\ mishaps' = mishaps + 1

MakeDirectory(c) ==
  /\ at[c] = "directory"
  /\ sockets' = sockets \cup {base}
  /\ Goto(c, "bind")
  /\ UNCHANGED <<fileVars, mishaps, dir, key, mutex, cache, step, base, saw, answer>>

BaseRefused(c) ==
  /\ at[c] = "directory" /\ Mishap
  /\ NextBase(c)
  /\ UNCHANGED <<fileVars, sockets>>

Bind(c) ==
  /\ at[c] = "bind"
  /\ Goto(c, "feature")
  /\ UNCHANGED <<fileVars, mishaps, dir, key, mutex, cache, probeVars, answer>>

(* The directory of a socket that cannot be bound is taken away again.     *)
BindFails(c) ==
  /\ at[c] = "bind" /\ Mishap
  /\ sockets' = sockets \ {base}
  /\ NextBase(c)
  /\ UNCHANGED fileVars

(* probe_raw_semantics(): one feature, and its socket is dropped.          *)
Feature(c) ==
  /\ at[c] = "feature"
  /\ sockets' = sockets \ {base}
  /\ LET f      == file[dir[c]]
         passes == f # 0 /\ Features[step - 2] \in build[f].does
     IN  \/ /\ passes /\ step < LastStep
            /\ step' = step + 1 /\ base' = 1 /\ saw' = Ran(c)
            /\ Goto(c, "directory")
            /\ UNCHANGED <<dir, key, mutex, cache, answer>>
         \/ /\ ~passes \/ step = LastStep
            /\ Store(c, passes, Ran(c))
  /\ UNCHANGED <<fileVars, mishaps>>

(* A command times out or cannot be started.                               *)
CommandFails(c) ==
  /\ at[c] \in {"help", "feature"} /\ Mishap
  /\ sockets' = sockets \ {base}
  /\ Store(c, FALSE, saw)
  /\ UNCHANGED fileVars

-----------------------------------------------------------------------------
(* A ydotool is put into a directory of PATH, in place of the one that may *)
(* be there, or taken out.                                                 *)
Install(d) ==
  /\ Len(build) < MaxFiles
  /\ \E b \in Builds : build' = Append(build, b)
  /\ file' = [file EXCEPT ![d] = Len(build')]
  /\ UNCHANGED <<mishaps, at, dir, key, mutex, cache, probeVars, answer>>

Remove(d) ==
  /\ file[d] # 0
  /\ file' = [file EXCEPT ![d] = 0]
  /\ UNCHANGED <<build, mishaps, at, dir, key, mutex, cache, probeVars, answer>>

Tick ==
  /\ cache.age < Ttl
  /\ cache' = [cache EXCEPT !.age = @ + 1]
  /\ UNCHANGED <<fileVars, mishaps, at, dir, key, mutex, probeVars, answer>>

Proceeds(c) ==
  \/ Resolve(c) \/ Fingerprint(c) \/ Lock(c) \/ Serve(c) \/ Probe(c) \/ Help(c)
  \/ MakeDirectory(c) \/ Bind(c) \/ Feature(c)
  \/ BaseRefused(c) \/ BindFails(c) \/ CommandFails(c)

Next ==
  \/ \E c \in Call : Start(c) \/ Proceeds(c)
  \/ \E d \in 1..Dirs : Install(d) \/ Remove(d)
  \/ Tick

Spec == Init /\ [][Next]_vars

(* A blocking thread runs, and time passes.                                *)
FairSpec == Spec /\ (\A c \in Call : WF_vars(Proceeds(c))) /\ WF_vars(Tick)

-----------------------------------------------------------------------------
Probing == {"help", "directory", "bind", "feature"}
Stamps  == (1..Dirs) \X Files

TypeOK ==
  /\ build \in Seq(Builds) /\ Len(build) <= MaxFiles
  /\ file \in [1..Dirs -> 0..Len(build)]
  /\ mishaps \in 0..MaxMishaps
  /\ at \in [Call -> {"idle", "resolve", "fingerprint", "lock", "look"} \cup Probing]
  /\ dir \in [Call -> 0..Dirs]
  /\ key \in [Call -> {SearchPath} \cup Stamps]
  /\ mutex \in Call \cup {Nobody}
  /\ cache \in [key : {SearchPath} \cup Stamps, ok : BOOLEAN, age : 0..Ttl,
                saw : SUBSET Stamps]
  /\ step \in 0..LastStep /\ base \in 0..Bases
  /\ sockets \subseteq 1..Bases /\ saw \subseteq Stamps
  /\ answer \in [Call -> {"none", "ok", "failed"}]

(* One call at a time is past the mutex, and knows where it looks.         *)
MutexInv ==
  /\ \A c \in Call : at[c] \in {"look"} \cup Probing <=> mutex = c
  /\ \A c \in Call : at[c] \in {"resolve", "fingerprint"} \cup Probing => dir[c] # 0
  /\ \A c \in Call : key[c] # SearchPath /\ at[c] \in {"lock", "look"} \cup Probing
                       => key[c][1] = dir[c]

(* The files are numbered as they come, so one that is gone stays gone.    *)
FileInv ==
  \A d, e \in 1..Dirs : file[d] # 0 /\ file[d] = file[e] => d = e

(* A probe begins with nothing run. While the file of the key is in place, *)
(* it has run nothing else, which passed all the commands before this one. *)
Untouched(k) == k # SearchPath /\ file[k[1]] = k[2]

EarnedInv ==
  /\ (\A c \in Call : at[c] \notin Probing) => saw = {}
  /\ \A c \in Call : at[c] \in Probing /\ Untouched(key[c]) =>
       /\ saw \subseteq {key[c]}
       /\ at[c] # "help" =>
            /\ saw = {key[c]}
            /\ build[key[c][2]].help # 0 /\ build[key[c][2]].raw
            /\ step \in 3..LastStep
            /\ \A i \in 1..(step - 3) : Features[i] \in build[key[c][2]].does

(* A cached success was earned by the very file it is served for: every    *)
(* command of the probe ran it and nothing else, and it passed. The file   *)
(* may be replaced between the look-up, the fingerprint, the probe and the *)
(* store, but then no later call comes with that key (ydotool.rs:143-210). *)
SuccessIsEarned ==
  cache.ok /\ Untouched(cache.key) =>
    cache.saw = {cache.key} /\ Capable(cache.key[2])

(* A probe directory exists while its socket is in use, and no longer.     *)
SocketInv ==
  /\ sockets = IF \E c \in Call : at[c] \in {"bind", "feature"} THEN {base} ELSE {}
  /\ \A c \in Call : at[c] \in {"directory", "bind", "feature"} => base # 0

IInv == MutexInv /\ FileInv /\ EarnedInv /\ SuccessIsEarned /\ SocketInv

(* Calls, cache and probe are well formed and agree; a cached success is   *)
(* earned, and no probe directory is left behind, whatever fails.          *)
Consistent == TypeOK /\ IInv

(* When ydotool works from some time on, calls that keep asking are told   *)
(* so from some time on: a failure that is cached does not outlive its     *)
(* reason for good, however the calls and the installation interleave.     *)
Good ==
  \E d \in 1..Dirs :
    file[d] # 0 /\ Capable(file[d]) /\ \A e \in 1..(d-1) : file[e] = 0

Recovers ==
  /\ <>[]Good
  /\ \A c \in Call : []<>(at[c] = "resolve")
  => \A c \in Call : []<>(at[c] = "idle" /\ answer[c] = "ok")
=============================================================================
