------------------------ MODULE YdotoolProbe_proofs -------------------------
(* The proofs about YdotoolProbe: for any number of calls, directories,    *)
(* bases, features and builds, and wherever ydotool is replaced or removed *)
(* while a call looks for it or probes it, a success that is kept was      *)
(* earned by the very file it is kept for, and no socket is left behind.   *)
EXTENDS YdotoolProbe, TLAPS

(* What a call does to the world and to the others: a step of its own      *)
(* concerns it alone.                                                      *)
Acts(c) == Start(c) \/ Proceeds(c)

LEMMA OthersStay ==
  ASSUME TypeOK, NEW c \in Call, Acts(c), NEW d \in Call \ {c}
  PROVE  at'[d] = at[d] /\ dir'[d] = dir[d] /\ key'[d] = key[d]
<1>1. /\ at' = at \/ \E s : at' = [at EXCEPT ![c] = s]
      /\ dir' = dir \/ \E s : dir' = [dir EXCEPT ![c] = s]
      /\ key' = key \/ \E s : key' = [key EXCEPT ![c] = s]
  <2> USE DEF Goto, Return, Store, NextBase
  <2>1. CASE Start(c) \/ Resolve(c) \/ Fingerprint(c) \/ Lock(c) \/ Serve(c)
    BY <2>1 DEF Start, Resolve, Fingerprint, Lock, Serve
  <2>2. CASE Probe(c) \/ Help(c)
    BY <2>2 DEF Probe, Help
  <2>3. CASE MakeDirectory(c) \/ Bind(c) \/ BaseRefused(c) \/ BindFails(c)
    BY <2>3 DEF MakeDirectory, Bind, BaseRefused, BindFails
  <2>4. CASE Feature(c) \/ CommandFails(c)
    BY <2>4 DEF Feature, CommandFails
  <2> QED BY <2>1, <2>2, <2>3, <2>4 DEF Acts, Proceeds
<1> QED BY <1>1 DEF TypeOK

-----------------------------------------------------------------------------
(* Types. Commands run files that are there.                               *)
LEMMA RanType ==
  ASSUME TypeOK, MutexInv, NEW c \in Call, at[c] \in Probing
  PROVE  /\ Ran(c) \in SUBSET Stamps /\ dir[c] \in 1..Dirs
         /\ file[dir[c]] \in 0..Len(build)
<1>1. dir[c] \in 1..Dirs /\ saw \in SUBSET Stamps /\ Len(build) \in Nat
  BY YdotoolProbeAssumption DEF TypeOK, MutexInv
<1>2. file[dir[c]] \in 0..Len(build)
  BY <1>1 DEF TypeOK
<1>3. file[dir[c]] # 0 => Stamp(dir[c]) \in Stamps
  BY <1>1, <1>2 DEF Stamp, Stamps, Files
<1> QED BY <1>1, <1>2, <1>3 DEF Ran

(* The end of a probe, or of a look at the cache.                          *)
ProbeTypes ==
  /\ at' \in [Call -> {"idle", "resolve", "fingerprint", "lock", "look"} \cup Probing]
  /\ dir' \in [Call -> 0..Dirs]
  /\ key' \in [Call -> {SearchPath} \cup Stamps]
  /\ mutex' \in Call \cup {Nobody}
  /\ cache' \in [key : {SearchPath} \cup Stamps, ok : BOOLEAN, age : 0..Ttl,
                 saw : SUBSET Stamps]
  /\ step' \in 0..LastStep /\ base' \in 0..Bases /\ saw' \in SUBSET Stamps
  /\ answer' \in [Call -> {"none", "ok", "failed"}]

LEMMA StoreTypes ==
  ASSUME TypeOK, NEW c \in Call, NEW ok \in BOOLEAN, NEW ran \in SUBSET Stamps, Store(c, ok, ran)
  PROVE  ProbeTypes
<1>1. /\ Dirs \in Nat /\ Ttl \in Nat /\ Bases \in Nat /\ LastStep \in Nat
  BY YdotoolProbeAssumption DEF LastStep
<1>2. 0 \in 0..Dirs /\ 0 \in 0..Ttl /\ 0 \in 0..Bases /\ 0 \in 0..LastStep
  BY <1>1
<1> HIDE DEF LastStep
<1>3. key[c] \in {SearchPath} \cup Stamps
  BY DEF TypeOK
<1>4. cache' \in [key : {SearchPath} \cup Stamps, ok : BOOLEAN, age : 0..Ttl, saw : SUBSET Stamps]
  BY <1>2, <1>3 DEF Store
<1> QED BY <1>2, <1>4 DEF Store, Return, Goto, TypeOK, ProbeTypes, Verdict

LEMMA NextBaseTypes ==
  ASSUME TypeOK, NEW c \in Call, NextBase(c)
  PROVE  ProbeTypes
<1>1. Bases \in Nat /\ base \in 0..Bases /\ (base < Bases => base + 1 \in 0..Bases)
  BY YdotoolProbeAssumption DEF TypeOK
<1>2. CASE Store(c, FALSE, saw)
  BY <1>2, StoreTypes DEF TypeOK
<1>3. CASE base < Bases /\ base' = base + 1 /\ Goto(c, "directory")
           /\ UNCHANGED <<dir, key, mutex, cache, step, saw, answer>>
  BY <1>1, <1>3 DEF Goto, Probing, TypeOK, ProbeTypes
<1> QED BY <1>2, <1>3 DEF NextBase

LEMMA TypeStep ==
  ASSUME TypeOK, MutexInv, SocketInv, [Next]_vars
  PROVE  TypeOK'
<1>1. /\ Dirs \in Nat \ {0} /\ Bases \in Nat \ {0} /\ Ttl \in Nat \ {0} /\ MaxMishaps \in Nat
      /\ Len(Features) \in Nat \ {0} /\ LastStep \in Nat /\ LastStep >= 3 /\ MaxFiles \in Nat
      /\ Len(build) \in Nat
  BY YdotoolProbeAssumption DEF LastStep, TypeOK
<1>2. 0 \in 0..Dirs /\ 1 \in 0..Dirs /\ {1, 2, 3} \subseteq 0..LastStep /\ 1 \in 0..Bases
  BY <1>1
<1>3. mishaps' = mishaps \/ Mishap => mishaps' \in 0..MaxMishaps
  BY <1>1 DEF Mishap, TypeOK
<1>4. ASSUME ProbeTypes, UNCHANGED fileVars, mishaps' \in 0..MaxMishaps, sockets' \subseteq 1..Bases
      PROVE  TypeOK'
  BY <1>4 DEF ProbeTypes, fileVars, TypeOK, Stamps, Files
<1>5. sockets \in SUBSET (1..Bases)
  BY DEF TypeOK
<1>6. ASSUME NEW c \in Call, Start(c) \/ Lock(c) \/ Serve(c) PROVE TypeOK'
  <2>1. UNCHANGED <<fileVars, mishaps, cache, probeVars>>
    BY <1>6 DEF Start, Lock, Serve
  <2>2. ProbeTypes
    <3> USE <1>2, <2>1 DEF Goto, TypeOK, ProbeTypes, probeVars
    <3>1. CASE Start(c)
      BY <3>1 DEF Start
    <3>2. CASE Lock(c)
      BY <3>2 DEF Lock
    <3>3. CASE Serve(c)
      <4>1. Verdict(cache.ok) \in {"ok", "failed"}
        BY DEF Verdict
      <4>2. at' = [at EXCEPT ![c] = "idle"] /\ dir' = [dir EXCEPT ![c] = 0]
            /\ key' = [key EXCEPT ![c] = SearchPath] /\ mutex' = Nobody
            /\ answer' = [answer EXCEPT ![c] = Verdict(cache.ok)]
        BY <3>3 DEF Serve, Return
      <4> QED BY <4>1, <4>2
    <3> QED BY <1>6, <3>1, <3>2, <3>3
  <2> QED BY <1>3, <1>4, <1>5, <2>1, <2>2 DEF probeVars
<1>7. ASSUME NEW c \in Call, Resolve(c) PROVE TypeOK'
  <2>1. /\ UNCHANGED <<fileVars, mishaps, mutex, cache, probeVars, answer>>
        /\ dir[c] \in 0..Dirs
    BY <1>7 DEF Resolve, TypeOK
  <2>2. dir[c] < Dirs => dir[c] + 1 \in 0..Dirs
    BY <1>1, <2>1
  <2>3. ProbeTypes
    <3> USE <1>2, <2>1, <2>2 DEF Goto, TypeOK, ProbeTypes, probeVars
    <3>1. CASE Goto(c, "fingerprint") /\ UNCHANGED <<dir, key>>
      BY <3>1
    <3>2. CASE dir[c] < Dirs /\ dir' = [dir EXCEPT ![c] = @ + 1] /\ UNCHANGED <<at, key>>
      BY <3>2
    <3>3. CASE /\ dir' = [dir EXCEPT ![c] = 0] /\ key' = [key EXCEPT ![c] = SearchPath]
               /\ Goto(c, "lock")
      BY <3>3
    <3> QED BY <1>7, <3>1, <3>2, <3>3 DEF Resolve
  <2> QED BY <1>3, <1>4, <1>5, <2>1, <2>3 DEF probeVars
<1>8. ASSUME NEW c \in Call, Fingerprint(c) PROVE TypeOK'
  <2>1. UNCHANGED <<fileVars, mishaps, dir, mutex, cache, probeVars, answer>>
    BY <1>8 DEF Fingerprint
  <2>2. dir[c] \in 1..Dirs /\ file[dir[c]] \in 0..Len(build)
    BY <1>1, <1>8 DEF Fingerprint, TypeOK, MutexInv
  <2>3. file[dir[c]] # 0 => Stamp(dir[c]) \in Stamps
    BY <1>1, <2>2 DEF Stamp, Stamps, Files
  <2>4. ProbeTypes
    BY <1>8, <2>1, <2>3 DEF Fingerprint, Goto, TypeOK, ProbeTypes, probeVars
  <2> QED BY <1>3, <1>4, <1>5, <2>1, <2>4 DEF probeVars
<1>9. ASSUME NEW c \in Call, Probe(c) PROVE TypeOK'
  <2>1. UNCHANGED <<fileVars, mishaps, sockets>>
    BY <1>9 DEF Probe
  <2>2. CASE Store(c, FALSE, {})
    BY <1>3, <1>4, <1>5, <2>1, <2>2, StoreTypes
  <2>3. CASE step' = 1 /\ Goto(c, "help") /\ UNCHANGED <<dir, key, mutex, cache, base, saw, answer>>
    <3>1. ProbeTypes
      BY <1>2, <2>3 DEF Goto, Probing, TypeOK, ProbeTypes
    <3> QED BY <1>3, <1>4, <1>5, <2>1, <3>1
  <2> QED BY <1>9, <2>2, <2>3 DEF Probe
<1>10. ASSUME NEW c \in Call, Help(c) PROVE TypeOK'
  <2>1. UNCHANGED <<fileVars, mishaps, sockets>> /\ Ran(c) \in SUBSET Stamps
    BY <1>10, RanType DEF Help, Probing
  <2>2. CASE Store(c, FALSE, Ran(c))
    BY <1>3, <1>4, <1>5, <2>1, <2>2, StoreTypes
  <2>3. CASE ~Store(c, FALSE, Ran(c))
    <3>1. ProbeTypes
      BY <1>2, <1>10, <2>1, <2>3 DEF Help, Goto, Probing, TypeOK, ProbeTypes
    <3> QED BY <1>3, <1>4, <1>5, <2>1, <3>1
  <2> QED BY <2>2, <2>3
<1>11. ASSUME NEW c \in Call, MakeDirectory(c) \/ Bind(c) PROVE TypeOK'
  <2>1. UNCHANGED <<fileVars, mishaps, dir, key, mutex, cache, step, base, saw, answer>>
    BY <1>11 DEF MakeDirectory, Bind, probeVars
  <2>2. at[c] = "directory" => base \in 1..Bases
    <3>1. base \in 0..Bases /\ (at[c] = "directory" => base # 0)
      BY DEF TypeOK, SocketInv
    <3> QED BY <1>1, <3>1
  <2>3. sockets' \subseteq 1..Bases
    BY <1>5, <1>11, <2>2 DEF MakeDirectory, Bind, probeVars
  <2>4. ProbeTypes
    BY <1>11, <2>1 DEF MakeDirectory, Bind, Goto, Probing, TypeOK, ProbeTypes
  <2> QED BY <1>3, <1>4, <2>1, <2>3, <2>4
<1>12. ASSUME NEW c \in Call, BaseRefused(c) \/ BindFails(c) PROVE TypeOK'
  <2>1. ProbeTypes
    BY <1>12, NextBaseTypes DEF BaseRefused, BindFails
  <2>2. UNCHANGED fileVars /\ Mishap /\ sockets' \subseteq 1..Bases
    BY <1>5, <1>12 DEF BaseRefused, BindFails
  <2> QED BY <1>3, <1>4, <2>1, <2>2
<1>13. ASSUME NEW c \in Call, CommandFails(c) PROVE TypeOK'
  <2>1. UNCHANGED fileVars /\ Mishap /\ sockets' \subseteq 1..Bases /\ Store(c, FALSE, saw)
    BY <1>5, <1>13 DEF CommandFails
  <2>2. ProbeTypes
    BY <2>1, StoreTypes DEF TypeOK
  <2> QED BY <1>3, <1>4, <2>1, <2>2
<1>14. ASSUME NEW c \in Call, Feature(c) PROVE TypeOK'
  <2>1. UNCHANGED <<fileVars, mishaps>> /\ sockets' \subseteq 1..Bases /\ Ran(c) \in SUBSET Stamps
    BY <1>5, <1>14, RanType DEF Feature, Probing
  <2>2. CASE \E passes \in BOOLEAN : Store(c, passes, Ran(c))
    BY <1>3, <1>4, <2>1, <2>2, StoreTypes
  <2>3. CASE /\ step < LastStep /\ step' = step + 1 /\ base' = 1 /\ saw' = Ran(c)
             /\ Goto(c, "directory") /\ UNCHANGED <<dir, key, mutex, cache, answer>>
    <3>1. step' \in 0..LastStep
      BY <1>1, <2>3 DEF TypeOK
    <3>2. ProbeTypes
      BY <1>2, <2>1, <2>3, <3>1 DEF Goto, Probing, TypeOK, ProbeTypes
    <3> QED BY <1>3, <1>4, <2>1, <3>2
  <2> QED BY <1>14, <2>2, <2>3 DEF Feature
<1>15. ASSUME NEW d \in 1..Dirs, Install(d) PROVE TypeOK'
  <2>1. PICK b \in Builds : build' = Append(build, b)
    BY <1>15 DEF Install
  <2>2. build' \in Seq(Builds) /\ Len(build') = Len(build) + 1 /\ Len(build') <= MaxFiles
    BY <1>1, <1>15, <2>1 DEF Install, TypeOK
  <2>3. 0..Len(build) \subseteq 0..Len(build') /\ Len(build') \in 0..Len(build')
        /\ 1..Len(build) \subseteq 1..Len(build')
    BY <1>1, <2>2
  <2>4. file' \in [1..Dirs -> 0..Len(build')]
    BY <1>15, <2>3 DEF Install, TypeOK
  <2>5. Stamps \subseteq Stamps'
    BY <2>3 DEF Stamps, Files
  <2>6. UNCHANGED <<mishaps, at, dir, key, mutex, cache, step, base, sockets, saw, answer>>
    BY <1>15 DEF Install, probeVars
  <2>7. key' \in [Call -> {SearchPath} \cup Stamps'] /\ saw' \subseteq Stamps'
    BY <2>5, <2>6 DEF TypeOK
  <2>8. cache' \in [key : {SearchPath} \cup Stamps', ok : BOOLEAN, age : 0..Ttl, saw : SUBSET Stamps']
    BY <2>5, <2>6 DEF TypeOK
  <2>9. /\ mishaps' \in 0..MaxMishaps /\ dir' \in [Call -> 0..Dirs]
        /\ at' \in [Call -> {"idle", "resolve", "fingerprint", "lock", "look"} \cup Probing]
        /\ mutex' \in Call \cup {Nobody} /\ step' \in 0..LastStep /\ base' \in 0..Bases
        /\ sockets' \subseteq 1..Bases /\ answer' \in [Call -> {"none", "ok", "failed"}]
    BY <2>6 DEF TypeOK
  <2> QED BY <2>2, <2>4, <2>7, <2>8, <2>9 DEF TypeOK
<1>16. ASSUME NEW d \in 1..Dirs, Remove(d) PROVE TypeOK'
  <2>1. file' = [file EXCEPT ![d] = 0] /\ 0 \in 0..Len(build)
    BY <1>1, <1>16 DEF Remove
  <2>2. file' \in [1..Dirs -> 0..Len(build)]
    BY <2>1 DEF TypeOK
  <2> QED BY <1>16, <2>2 DEF Remove, TypeOK, probeVars, Stamps, Files
<1>17. CASE Tick
  <2>1. cache' = [cache EXCEPT !.age = @ + 1] /\ cache.age \in 0..Ttl /\ cache.age < Ttl
    BY <1>17 DEF Tick, TypeOK
  <2>2. cache.age + 1 \in 0..Ttl
    BY <1>1, <2>1
  <2>3. ProbeTypes
    BY <1>17, <2>1, <2>2 DEF Tick, TypeOK, ProbeTypes, probeVars
  <2> QED BY <1>3, <1>4, <1>5, <1>17, <2>3 DEF Tick, probeVars
<1>18. CASE UNCHANGED vars
  BY <1>18 DEF vars, TypeOK, Stamps, Files
<1> QED
  BY <1>6, <1>7, <1>8, <1>9, <1>10, <1>11, <1>12, <1>13, <1>14, <1>15, <1>16, <1>17, <1>18
  DEF Next, Proceeds

-----------------------------------------------------------------------------
(* One call is past the mutex.                                             *)
LEMMA MutexStep ==
  ASSUME TypeOK, MutexInv, [Next]_vars
  PROVE  MutexInv'
<1> USE DEF Goto, Return, Store, NextBase
<1>1. /\ at \in [Call -> {"idle", "resolve", "fingerprint", "lock", "look"} \cup Probing]
      /\ dir \in [Call -> 0..Dirs] /\ key \in [Call -> {SearchPath} \cup Stamps]
      /\ Nobody \notin Call
  BY YdotoolProbeAssumption DEF TypeOK
<1> DEFINE Past(s) == s \in {"look"} \cup Probing
           In(c)   == Past(at[c]) <=> mutex = c
           Knows(c) == /\ at[c] \in {"resolve", "fingerprint"} \cup Probing => dir[c] # 0
                       /\ key[c] # SearchPath /\ at[c] \in {"lock", "look"} \cup Probing
                            => key[c][1] = dir[c]
<1>2. MutexInv <=> \A c \in Call : In(c) /\ Knows(c)
  BY DEF MutexInv
<1>3. MutexInv' <=> \A c \in Call : In(c)' /\ Knows(c)'
  BY DEF MutexInv
<1>4. ASSUME NEW c \in Call, Acts(c) PROVE MutexInv'
  <2>1. \/ mutex' = mutex /\ (Past(at'[c]) <=> Past(at[c]))
        \/ mutex = Nobody /\ mutex' = c /\ Past(at'[c])
        \/ mutex = c /\ mutex' = Nobody /\ ~Past(at'[c])
    <3> USE <1>1, <1>2, <1>4 DEF Probing
    <3>1. CASE Start(c) \/ Resolve(c) \/ Fingerprint(c)
      BY <3>1 DEF Start, Resolve, Fingerprint
    <3>2. CASE Lock(c) \/ Serve(c)
      BY <3>2 DEF Lock, Serve
    <3>3. CASE Probe(c) \/ Help(c)
      BY <3>3 DEF Probe, Help
    <3>4. CASE MakeDirectory(c) \/ Bind(c)
      BY <3>4 DEF MakeDirectory, Bind
    <3>5. CASE BaseRefused(c) \/ BindFails(c)
      BY <3>5 DEF BaseRefused, BindFails
    <3>6. CASE Feature(c) \/ CommandFails(c)
      BY <3>6 DEF Feature, CommandFails
    <3> QED BY <3>1, <3>2, <3>3, <3>4, <3>5, <3>6 DEF Acts, Proceeds
  <2>2. Knows(c)'
    <3> USE <1>1, <1>2, <1>4 DEF Probing
    <3>1. CASE Start(c) \/ Resolve(c)
      BY YdotoolProbeAssumption, <3>1 DEF Start, Resolve
    <3>2. CASE Fingerprint(c)
      BY <3>2 DEF Fingerprint, Stamp
    <3>3. CASE Lock(c) \/ Serve(c)
      BY <3>3 DEF Lock, Serve
    <3>4. CASE Probe(c) \/ Help(c)
      BY <3>4 DEF Probe, Help
    <3>5. CASE MakeDirectory(c) \/ Bind(c)
      BY <3>5 DEF MakeDirectory, Bind
    <3>6. CASE BaseRefused(c) \/ BindFails(c)
      BY <3>6 DEF BaseRefused, BindFails
    <3>7. CASE Feature(c) \/ CommandFails(c)
      BY <3>7 DEF Feature, CommandFails
    <3> QED BY <3>1, <3>2, <3>3, <3>4, <3>5, <3>6, <3>7 DEF Acts, Proceeds
  <2>3. In(c)'
    BY <1>1, <1>2, <2>1
  <2>4. ASSUME NEW d \in Call \ {c} PROVE In(d)' /\ Knows(d)'
    <3>1. at'[d] = at[d] /\ dir'[d] = dir[d] /\ key'[d] = key[d]
      BY <1>4, OthersStay
    <3>2. mutex = d <=> mutex' = d
      BY <1>1, <2>1
    <3> QED BY <1>2, <3>1, <3>2
  <2> QED BY <1>3, <2>2, <2>3, <2>4
<1>5. ASSUME NEW d \in 1..Dirs, Install(d) \/ Remove(d) PROVE MutexInv'
  BY <1>5 DEF Install, Remove, MutexInv
<1>6. CASE Tick \/ UNCHANGED vars
  BY <1>6 DEF Tick, vars, MutexInv
<1> QED BY <1>4, <1>5, <1>6 DEF Next, Acts

(* A file that is installed is a new one.                                  *)
LEMMA FileStep ==
  ASSUME TypeOK, FileInv, [Next]_vars
  PROVE  FileInv'
<1>1. ASSUME NEW d \in 1..Dirs, Install(d) PROVE FileInv'
  <2>1. build \in Seq(Builds) /\ Len(build) \in Nat /\ Len(build') = Len(build) + 1
    BY <1>1 DEF Install, TypeOK
  <2>2. \A e \in 1..Dirs : file[e] \in 0..Len(build)
    BY DEF TypeOK
  <2>3. \A e \in 1..Dirs : file'[e] = IF e = d THEN Len(build) + 1 ELSE file[e]
    BY <1>1, <2>1 DEF Install, TypeOK
  <2>4. \A e \in 1..Dirs : file[e] # Len(build) + 1
    BY <2>1, <2>2
  <2> QED BY <2>3, <2>4 DEF FileInv
<1>2. ASSUME NEW d \in 1..Dirs, Remove(d) PROVE FileInv'
  BY <1>2 DEF Remove, FileInv, TypeOK
<1>3. ASSUME NEW c \in Call, Acts(c) PROVE FileInv'
  <2>1. file' = file
    BY <1>3 DEF Acts, Proceeds, Start, Resolve, Fingerprint, Lock, Serve, Probe, Help,
       MakeDirectory, Bind, Feature, BaseRefused, BindFails, CommandFails, fileVars
  <2> QED BY <2>1 DEF FileInv
<1>4. CASE Tick \/ UNCHANGED vars
  BY <1>4 DEF Tick, vars, fileVars, FileInv
<1> QED BY <1>1, <1>2, <1>3, <1>4 DEF Next, Acts

(* A socket goes with its directory when its command is over or it cannot  *)
(* be bound, and each is tried in a base there is.                         *)
LEMMA SocketStep ==
  ASSUME TypeOK, MutexInv, SocketInv, [Next]_vars
  PROVE  SocketInv'
<1> USE DEF Goto, Return, Store, NextBase
<1> DEFINE Open == \E c \in Call : at[c] \in {"bind", "feature"}
           Based(c) == at[c] \in {"directory", "bind", "feature"} => base # 0
<1>1. /\ at \in [Call -> {"idle", "resolve", "fingerprint", "lock", "look"} \cup Probing]
      /\ base \in 0..Bases /\ Bases \in Nat
  BY YdotoolProbeAssumption DEF TypeOK
<1>2. sockets = (IF Open THEN {base} ELSE {}) /\ \A c \in Call : Based(c)
  BY DEF SocketInv
<1>3. ASSUME NEW c \in Call, at[c] \in Probing, NEW d \in Call \ {c}
      PROVE  at[d] \notin Probing
  BY <1>3 DEF MutexInv
<1>4. ASSUME NEW c \in Call, Acts(c), at[c] \in Probing
      PROVE  Open' <=> at'[c] \in {"bind", "feature"}
  <2>1. \A d \in Call \ {c} : at'[d] \notin {"bind", "feature"}
    BY <1>3, <1>4, OthersStay DEF Probing
  <2> QED BY <2>1
<1>5. ASSUME NEW c \in Call, at[c] \in Probing
      PROVE  Open <=> at[c] \in {"bind", "feature"}
  BY <1>3, <1>5 DEF Probing
<1>6. ASSUME NEW c \in Call, Acts(c), at[c] \in Probing, Based(c)',
             sockets' = IF at'[c] \in {"bind", "feature"} THEN {base'} ELSE {}
      PROVE  SocketInv'
  <2>1. \A d \in Call \ {c} : at'[d] \notin {"directory", "bind", "feature"}
    BY <1>3, <1>6, OthersStay DEF Probing
  <2> QED BY <1>4, <1>6, <2>1 DEF SocketInv
<1> HIDE DEF Open
<1>7. ASSUME NEW c \in Call, Acts(c), at[c] \notin Probing PROVE SocketInv'
  <2>1. /\ at'[c] \notin {"directory", "bind", "feature"}
        /\ sockets' = sockets /\ (base' = base \/ base' = 0)
        /\ base' # base => mutex = c
    <3> USE <1>1, <1>7
    <3>1. CASE Start(c) \/ Resolve(c) \/ Fingerprint(c)
      BY <3>1 DEF Start, Resolve, Fingerprint, probeVars
    <3>2. CASE Lock(c) \/ Serve(c)
      BY <3>2 DEF Lock, Serve, probeVars
    <3>3. CASE Probe(c)
      BY <3>3 DEF Probe, MutexInv
    <3> QED BY <3>1, <3>2, <3>3 DEF Acts, Proceeds, Help, MakeDirectory, Bind, Feature,
            BaseRefused, BindFails, CommandFails, Probing
  <2>2. \A d \in Call \ {c} : at'[d] = at[d]
    BY <1>7, OthersStay
  <2>3. Open' <=> Open
    BY <1>7, <2>1, <2>2 DEF Open, Probing
  <2>4. base' # base => \A d \in Call : at'[d] \notin {"directory", "bind", "feature"}
    BY <2>1, <2>2 DEF MutexInv, Probing
  <2>5. base' # base => ~Open'
    BY <2>4 DEF Open
  <2>6. sockets' = IF Open' THEN {base'} ELSE {}
    BY <1>2, <2>1, <2>3, <2>5
  <2>7. \A d \in Call : Based(d)'
    BY <1>2, <1>7, <2>1, <2>2, <2>4 DEF Probing
  <2> QED BY <2>6, <2>7 DEF SocketInv, Open
<1>8. ASSUME NEW c \in Call, Acts(c), at[c] \in Probing PROVE SocketInv'
  <2>1. sockets = (IF at[c] \in {"bind", "feature"} THEN {base} ELSE {}) /\ Based(c)
    BY <1>2, <1>5, <1>8
  <2>2. /\ Based(c)'
        /\ sockets' = IF at'[c] \in {"bind", "feature"} THEN {base'} ELSE {}
    <3> USE <1>1, <2>1
    <3>1. CASE Help(c)
      <4>1. sockets' = {}
        BY <3>1 DEF Help
      <4>2. at'[c] \in {"help", "idle"} \/ (at'[c] = "directory" /\ base' = 1)
        BY <3>1 DEF Help
      <4> QED BY <4>1, <4>2
    <3>2. CASE MakeDirectory(c) \/ Bind(c)
      <4>1. /\ base' = base
            /\ \/ at[c] = "directory" /\ sockets' = sockets \cup {base} /\ at'[c] = "bind"
               \/ at[c] = "bind" /\ sockets' = sockets /\ at'[c] = "feature"
        BY <3>2 DEF MakeDirectory, Bind, probeVars
      <4>2. at[c] = "directory" => sockets' = {base}
        BY <4>1
      <4>3. at[c] = "bind" => sockets' = {base}
        BY <4>1
      <4> QED BY <4>1, <4>2, <4>3
    <3>3. CASE BaseRefused(c) \/ BindFails(c)
      <4>1. sockets' = {} /\ (at'[c] = "idle" \/ (at'[c] = "directory" /\ base' = base + 1))
        BY <3>3 DEF BaseRefused, BindFails
      <4>2. base + 1 # 0
        BY <1>1
      <4> QED BY <4>1, <4>2
    <3>4. CASE Feature(c)
      <4>1. sockets' = {} /\ (at'[c] = "idle" \/ (at'[c] = "directory" /\ base' = 1))
        BY <3>4 DEF Feature
      <4> QED BY <4>1
    <3>5. CASE CommandFails(c)
      BY <3>5 DEF CommandFails
    <3> QED BY <1>8, <3>1, <3>2, <3>3, <3>4, <3>5 DEF Acts, Proceeds, Start, Resolve,
            Fingerprint, Lock, Serve, Probe, Probing
  <2> QED BY <1>6, <1>8, <2>2
<1>9. ASSUME NEW d \in 1..Dirs, Install(d) \/ Remove(d) PROVE SocketInv'
  BY <1>9 DEF Install, Remove, probeVars, SocketInv
<1>10. CASE Tick \/ UNCHANGED vars
  BY <1>10 DEF Tick, vars, probeVars, SocketInv
<1> QED BY <1>7, <1>8, <1>9, <1>10 DEF Next, Acts

-----------------------------------------------------------------------------
(* While the file of a key stays in place, it stays what it is.            *)
LEMMA KeyStays ==
  ASSUME TypeOK, NEW k \in {SearchPath} \cup Stamps, [Next]_vars, Untouched(k)'
  PROVE  /\ Untouched(k) /\ k \in Stamps /\ k = <<k[1], k[2]>> /\ k[1] \in 1..Dirs
         /\ build'[k[2]] = build[k[2]]
<1>1. k \in Stamps
  BY DEF Untouched
<1>2. k = <<k[1], k[2]>> /\ k[1] \in 1..Dirs /\ k[2] \in 1..Len(build) /\ Len(build) \in Nat
  BY <1>1 DEF Stamps, Files, TypeOK
<1>3. CASE UNCHANGED fileVars
  BY <1>1, <1>2, <1>3 DEF Untouched, fileVars
<1>4. ASSUME NEW d \in 1..Dirs, Install(d)
      PROVE  Untouched(k) /\ build'[k[2]] = build[k[2]]
  <2>1. PICK b \in Builds : build' = Append(build, b)
    BY <1>4 DEF Install
  <2>2. Len(build') = Len(build) + 1 /\ build'[k[2]] = build[k[2]]
    BY <1>2, <2>1 DEF TypeOK
  <2>3. k[1] # d
    <3>1. k[1] = d => file'[k[1]] = Len(build) + 1
      BY <1>2, <1>4, <2>2 DEF Install, TypeOK
    <3>2. file'[k[1]] = k[2]
      BY DEF Untouched
    <3> QED BY <1>2, <3>1, <3>2
  <2>4. file'[k[1]] = file[k[1]]
    BY <1>2, <1>4, <2>3 DEF Install, TypeOK
  <2> QED BY <2>2, <2>4 DEF Untouched
<1>5. ASSUME NEW d \in 1..Dirs, Remove(d)
      PROVE  Untouched(k) /\ build'[k[2]] = build[k[2]]
  <2>1. build' = build /\ (k[1] = d => file'[k[1]] = 0)
    BY <1>2, <1>5 DEF Remove, TypeOK
  <2>2. file'[k[1]] = k[2] /\ k[2] # 0
    BY <1>2 DEF Untouched
  <2>3. k[1] # d
    BY <2>1, <2>2
  <2>4. file'[k[1]] = file[k[1]]
    BY <1>2, <1>5, <2>3 DEF Remove, TypeOK
  <2> QED BY <2>1, <2>4 DEF Untouched
<1>6. UNCHANGED fileVars \/ \E d \in 1..Dirs : Install(d) \/ Remove(d)
  BY DEF Next, Proceeds, Start, Resolve, Fingerprint, Lock, Serve, Probe, Help, Tick, vars,
     MakeDirectory, Bind, Feature, BaseRefused, BindFails, CommandFails, fileVars
<1> QED BY <1>1, <1>2, <1>3, <1>4, <1>5, <1>6

(* What the probe of c has shown of the file of its key.                   *)
Shown(c) ==
  /\ saw \subseteq {key[c]}
  /\ at[c] # "help" =>
       /\ saw = {key[c]}
       /\ build[key[c][2]].help # 0 /\ build[key[c][2]].raw
       /\ step \in 3..LastStep
       /\ \A i \in 1..(step - 3) : Features[i] \in build[key[c][2]].does

(* A command of the probe runs the file of the key while it is in place.   *)
LEMMA RunsTheFile ==
  ASSUME TypeOK, MutexInv, NEW c \in Call, at[c] \in Probing, Untouched(key[c]),
         saw \subseteq {key[c]}
  PROVE  /\ Ran(c) = {key[c]} /\ file[dir[c]] = key[c][2] /\ key[c][2] # 0
         /\ key[c][2] \in 1..Len(build)
<1>1. key[c] \in Stamps /\ key[c][1] = dir[c] /\ file[dir[c]] = key[c][2]
  BY DEF Untouched, MutexInv, TypeOK
<1>2. key[c] = <<key[c][1], key[c][2]>> /\ key[c][2] \in 1..Len(build) /\ key[c][2] # 0
  BY <1>1 DEF Stamps, Files
<1>3. Stamp(dir[c]) = key[c]
  BY <1>1, <1>2 DEF Stamp
<1> QED BY <1>1, <1>2, <1>3 DEF Ran

(* Each command adds what it shows, and the last one makes it a success.   *)
LEMMA ProbeEarns ==
  ASSUME TypeOK, MutexInv, EarnedInv, SuccessIsEarned, NEW c \in Call, Acts(c),
         at[c] \in Probing
  PROVE  /\ at'[c] \in Probing /\ Untouched(key[c])' => Shown(c)'
         /\ SuccessIsEarned'
         /\ at'[c] \notin Probing => saw' = {}
         /\ at'[c] \in Probing => key' = key
<1> USE DEF Goto, Return, Store, NextBase
<1>1. UNCHANGED fileVars /\ LastStep \in Nat /\ LastStep >= 3 /\ LastStep = Len(Features) + 2
      /\ Len(Features) \in Nat
  <2>1. UNCHANGED fileVars
    BY DEF Acts, Proceeds, Start, Resolve, Fingerprint, Lock, Serve, Probe, Help,
       MakeDirectory, Bind, Feature, BaseRefused, BindFails, CommandFails, fileVars
  <2>2. Len(Features) \in Nat \ {0}
    BY YdotoolProbeAssumption
  <2> QED BY <2>1, <2>2 DEF LastStep
<1>2. at \in [Call -> {"idle", "resolve", "fingerprint", "lock", "look"} \cup Probing]
      /\ step \in 0..LastStep
  BY DEF TypeOK
<1>3. Untouched(key[c]) => Shown(c)
  BY DEF EarnedInv, Shown
<1>4. \A k : Untouched(k)' <=> Untouched(k)
  BY <1>1 DEF Untouched, fileVars
<1>5. cache' = cache => SuccessIsEarned'
  BY <1>1, <1>4 DEF SuccessIsEarned, Capable, fileVars
<1>6. cache'.ok = FALSE => SuccessIsEarned'
  BY DEF SuccessIsEarned
<1> HIDE DEF LastStep
<1>7. CASE Help(c)
  <2>1. Untouched(key[c]) => /\ Ran(c) = {key[c]} /\ file[dir[c]] = key[c][2]
                             /\ key[c][2] \in 1..Len(build) /\ key[c][2] # 0
    BY <1>3, RunsTheFile DEF Shown
  <2>2. CASE Store(c, FALSE, Ran(c))
    <3>1. at'[c] = "idle" /\ cache'.ok = FALSE /\ saw' = {}
      BY <1>2, <2>2
    <3> QED BY <1>6, <3>1 DEF Probing
  <2>3. CASE /\ step' = 2 /\ saw' = Ran(c) /\ UNCHANGED <<at, dir, key, mutex, base, cache, answer>>
    <3>1. Untouched(key[c]) => Shown(c)'
      BY <1>7, <2>1, <2>3 DEF Shown, Help
    <3> QED BY <1>4, <1>5, <1>7, <2>3, <3>1 DEF Help, Probing
  <2>4. CASE /\ Known(file[dir[c]]) /\ build[file[dir[c]]].raw
             /\ step' = 3 /\ saw' = Ran(c) /\ Goto(c, "directory")
             /\ UNCHANGED <<dir, key, mutex, cache, answer>>
    <3>1. build[file[dir[c]]].help # 0
      BY <1>2, <2>4 DEF Known
    <3>2. 3 \in 3..LastStep /\ \A i \in 1..(step' - 3) : FALSE
      BY <1>1, <2>4
    <3>3. build' = build
      BY <1>1 DEF fileVars
    <3>4. Untouched(key[c]) => Shown(c)'
      BY <2>1, <2>4, <3>1, <3>2, <3>3 DEF Shown
    <3> QED BY <1>2, <1>4, <1>5, <2>4, <3>4 DEF Probing
  <2> QED BY <1>7, <2>2, <2>3, <2>4 DEF Help
<1>8. CASE MakeDirectory(c) \/ Bind(c)
  <2>1. /\ UNCHANGED <<key, step, saw, cache>> /\ at'[c] \in {"bind", "feature"} /\ at[c] # "help"
    BY <1>2, <1>8 DEF MakeDirectory, Bind, probeVars
  <2>2. build' = build
    BY <1>1 DEF fileVars
  <2>3. Shown(c) => Shown(c)'
    BY <2>1, <2>2 DEF Shown
  <2> QED BY <1>3, <1>4, <1>5, <2>1, <2>3 DEF Probing
<1>9. CASE BaseRefused(c) \/ BindFails(c)
  <2>1. at[c] # "help" /\ NextBase(c)
    BY <1>9 DEF BaseRefused, BindFails
  <2>2. CASE Store(c, FALSE, saw)
    <3>1. at'[c] = "idle" /\ cache'.ok = FALSE /\ saw' = {}
      BY <1>2, <2>2
    <3> QED BY <1>6, <3>1 DEF Probing
  <2>3. CASE Goto(c, "directory") /\ UNCHANGED <<dir, key, mutex, cache, step, saw, answer>>
    <3>1. build' = build
      BY <1>1 DEF fileVars
    <3>2. Shown(c) => Shown(c)'
      BY <1>2, <2>1, <2>3, <3>1 DEF Shown
    <3> QED BY <1>2, <1>3, <1>4, <1>5, <2>3, <3>2 DEF Probing
  <2> QED BY <2>1, <2>2, <2>3
<1>10. CASE Feature(c)
  <2> DEFINE passes == file[dir[c]] # 0 /\ Features[step - 2] \in build[file[dir[c]]].does
  <2>1. Untouched(key[c]) => /\ Ran(c) = {key[c]} /\ file[dir[c]] = key[c][2]
                             /\ key[c][2] \in 1..Len(build) /\ key[c][2] # 0
    BY <1>3, RunsTheFile DEF Shown
  <2>2. at[c] = "feature" /\ build' = build
    BY <1>1, <1>10 DEF Feature, fileVars
  <2>3. CASE /\ passes /\ step < LastStep /\ step' = step + 1 /\ saw' = Ran(c)
             /\ Goto(c, "directory") /\ UNCHANGED <<dir, key, mutex, cache, answer>>
    <3>1. ASSUME Untouched(key[c]) PROVE Shown(c)'
      <4>1. step \in 3..LastStep
        BY <1>3, <2>2, <3>1 DEF Shown
      <4>2. step' \in 3..LastStep /\ \A i \in 1..(step' - 3) : i \in 1..(step - 3) \/ i = step - 2
        BY <1>1, <2>3, <4>1
      <4>3. \A i \in 1..(step' - 3) : Features[i] \in build[key[c][2]].does
        BY <1>3, <2>1, <2>2, <2>3, <3>1, <4>2 DEF Shown
      <4> QED BY <1>3, <2>1, <2>2, <2>3, <3>1, <4>2, <4>3 DEF Shown
    <3> QED BY <1>2, <1>4, <1>5, <2>3, <3>1 DEF Probing
  <2>4. CASE ~passes /\ Store(c, passes, Ran(c))
    <3>1. at'[c] = "idle" /\ cache'.ok = FALSE /\ saw' = {}
      BY <1>2, <2>4
    <3> QED BY <1>6, <3>1 DEF Probing
  <2>5. CASE passes /\ step = LastStep /\ Store(c, passes, Ran(c))
    <3>1. at'[c] = "idle" /\ cache'.key = key[c] /\ cache'.saw = Ran(c) /\ saw' = {}
      BY <1>2, <2>5
    <3>2. ASSUME NEW k, k = key[c], Untouched(k) PROVE Capable(k[2])'
      <4>1. \A i \in 1..Len(Features) : i \in 1..(step - 3) \/ i = step - 2
        BY <1>1, <2>5
      <4>2. \A i \in 1..Len(Features) : Features[i] \in build[k[2]].does
        BY <1>3, <2>1, <2>2, <2>5, <3>2, <4>1 DEF Shown
      <4>3. build[k[2]].help # 0 /\ build[k[2]].raw
        BY <1>3, <2>2, <3>2 DEF Shown
      <4> QED BY <2>2, <4>2, <4>3 DEF Capable
    <3>3. SuccessIsEarned'
      <4> SUFFICES ASSUME Untouched(cache.key)'
                   PROVE  cache'.saw = {cache'.key} /\ Capable(cache.key[2])'
        BY DEF SuccessIsEarned
      <4>1. Untouched(key[c])
        BY <2>2, <3>1, <1>1 DEF Untouched, fileVars
      <4> QED BY <2>1, <3>1, <3>2, <4>1
    <3> QED BY <3>1, <3>3 DEF Probing
  <2> QED BY <1>10, <2>3, <2>4, <2>5 DEF Feature
<1>11. CASE CommandFails(c)
  <2>1. at'[c] = "idle" /\ cache'.ok = FALSE /\ saw' = {}
    BY <1>2, <1>11 DEF CommandFails
  <2> QED BY <1>6, <2>1 DEF Probing
<1> QED BY <1>7, <1>8, <1>9, <1>10, <1>11 DEF Acts, Proceeds, Start, Resolve,
        Fingerprint, Lock, Serve, Probe, Probing

(* A call that is not probing starts one with nothing run, or keeps a      *)
(* failure, or leaves probe and cache alone.                               *)
LEMMA LookEarns ==
  ASSUME TypeOK, MutexInv, EarnedInv, SuccessIsEarned, NEW c \in Call, Acts(c),
         at[c] \notin Probing
  PROVE  /\ at'[c] \in Probing => Shown(c)' /\ saw = {} /\ at'[c] = "help"
         /\ SuccessIsEarned'
         /\ at'[c] \notin Probing => saw' \in {saw, {}}
<1> USE DEF Goto, Return, Store
<1>1. at \in [Call -> {"idle", "resolve", "fingerprint", "lock", "look"} \cup Probing]
  BY DEF TypeOK
<1>2. CASE Start(c) \/ Resolve(c) \/ Fingerprint(c) \/ Lock(c) \/ Serve(c)
  <2>1. at'[c] \notin Probing
    BY <1>1, <1>2 DEF Start, Resolve, Fingerprint, Lock, Serve, Probing
  <2>2. UNCHANGED <<cache, fileVars, saw>>
    BY <1>2 DEF Start, Resolve, Fingerprint, Lock, Serve, probeVars
  <2>3. SuccessIsEarned'
    BY <2>2 DEF SuccessIsEarned, Untouched, Capable, fileVars
  <2> QED BY <2>1, <2>2, <2>3
<1>3. CASE Probe(c)
  <2>1. CASE Store(c, FALSE, {})
    <3>1. at'[c] = "idle" /\ cache'.ok = FALSE /\ saw' = {}
      BY <1>1, <2>1
    <3> QED BY <3>1 DEF Probing, SuccessIsEarned
  <2>2. CASE Goto(c, "help") /\ UNCHANGED <<dir, key, mutex, cache, base, saw, answer>>
    <3>1. at'[c] = "help" /\ UNCHANGED <<cache, fileVars, saw>>
      BY <1>1, <1>3, <2>2 DEF Probe
    <3>2. saw = {}
      <4>1. mutex = c
        BY <1>3 DEF Probe, MutexInv
      <4>2. \A d \in Call : at[d] \notin Probing
        BY <1>3, <4>1 DEF Probe, MutexInv, Probing
      <4> QED BY <4>2 DEF EarnedInv
    <3>3. SuccessIsEarned'
      BY <3>1 DEF SuccessIsEarned, Untouched, Capable, fileVars
    <3> QED BY <3>1, <3>2, <3>3 DEF Shown, Probing
  <2> QED BY <1>3, <2>1, <2>2 DEF Probe
<1> QED BY <1>2, <1>3 DEF Acts, Proceeds, Help, MakeDirectory, Bind, Feature, BaseRefused,
        BindFails, CommandFails, Probing

(* What is shown stays so while others look, and while the file of the key *)
(* stays in place.                                                         *)
LEMMA EarnedStep ==
  ASSUME TypeOK, MutexInv, EarnedInv, SuccessIsEarned, [Next]_vars
  PROVE  EarnedInv' /\ SuccessIsEarned'
<1>1. EarnedInv' <=> /\ (\A c \in Call : at'[c] \notin Probing) => saw' = {}
                     /\ \A c \in Call : at'[c] \in Probing /\ Untouched(key[c])' => Shown(c)'
  BY DEF EarnedInv, Shown
<1>2. /\ (\A c \in Call : at[c] \notin Probing) => saw = {}
      /\ \A c \in Call : at[c] \in Probing /\ Untouched(key[c]) => Shown(c)
  BY DEF EarnedInv, Shown
<1>3. \A c, d \in Call : at[c] \in Probing /\ at[d] \in Probing => c = d
  BY DEF MutexInv
<1>4. ASSUME NEW c \in Call, Acts(c), at[c] \in Probing PROVE EarnedInv' /\ SuccessIsEarned'
  <2>1. /\ at'[c] \in Probing /\ Untouched(key[c])' => Shown(c)'
        /\ SuccessIsEarned'
        /\ at'[c] \notin Probing => saw' = {}
    BY <1>4, ProbeEarns
  <2>2. \A d \in Call \ {c} : at'[d] \notin Probing
    BY <1>3, <1>4, OthersStay
  <2> QED BY <1>1, <2>1, <2>2
<1>5. ASSUME NEW c \in Call, Acts(c), at[c] \notin Probing PROVE EarnedInv' /\ SuccessIsEarned'
  <2>1. /\ at'[c] \in Probing => Shown(c)' /\ saw = {} /\ at'[c] = "help"
        /\ SuccessIsEarned'
        /\ at'[c] \notin Probing => saw' \in {saw, {}}
    BY <1>5, LookEarns
  <2>2. \A d \in Call \ {c} : at'[d] = at[d] /\ key'[d] = key[d]
    BY <1>5, OthersStay
  <2>3. (\A d \in Call : at'[d] \notin Probing) => saw' = {}
    BY <1>2, <1>5, <2>1, <2>2
  <2>4. ASSUME NEW d \in Call \ {c}, at'[d] \in Probing, Untouched(key[d])' PROVE Shown(d)'
    <3>1. at[d] \in Probing /\ mutex = d
      BY <2>2, <2>4 DEF MutexInv
    <3>2. ~Probe(c) /\ ~Serve(c) /\ ~Lock(c)
      BY YdotoolProbeAssumption, <3>1 DEF Probe, Serve, Lock, MutexInv
    <3>3. UNCHANGED <<fileVars, saw, step>>
      BY <1>5, <3>2 DEF Acts, Proceeds, Start, Resolve, Fingerprint, Help, MakeDirectory, Bind,
         Feature, BaseRefused, BindFails, CommandFails, Probing, probeVars
    <3>4. Untouched(key[d]) /\ Shown(d)
      BY <1>2, <2>2, <2>4, <3>1, <3>3 DEF Untouched, fileVars
    <3> QED BY <2>2, <3>3, <3>4 DEF Shown, fileVars
  <2> QED BY <1>1, <2>1, <2>3, <2>4
<1>6. CASE (\E d \in 1..Dirs : Install(d) \/ Remove(d)) \/ Tick \/ UNCHANGED vars
  <2>1. /\ UNCHANGED <<at, key, step, saw>>
        /\ cache'.ok = cache.ok /\ cache'.key = cache.key /\ cache'.saw = cache.saw
    BY <1>6 DEF Install, Remove, Tick, vars, probeVars, TypeOK
  <2>2. ASSUME NEW c \in Call, at'[c] \in Probing, Untouched(key[c])' PROVE Shown(c)'
    <3> DEFINE k == key[c]
    <3>1. k \in {SearchPath} \cup Stamps /\ key'[c] = k /\ file'[k[1]] = k[2] /\ k # SearchPath
      BY <2>1, <2>2 DEF TypeOK, Untouched
    <3>2. Untouched(k) /\ build'[k[2]] = build[k[2]]
      BY ONLY <3>1, TypeOK, [Next]_vars, KeyStays DEF Untouched
    <3>3. Shown(c)
      BY <1>2, <2>1, <2>2, <3>2
    <3> QED BY <2>1, <3>2, <3>3 DEF Shown
  <2>3. SuccessIsEarned'
    <3> SUFFICES ASSUME cache'.ok, Untouched(cache.key)'
                 PROVE  cache'.saw = {cache'.key} /\ Capable(cache.key[2])'
      BY DEF SuccessIsEarned
    <3> DEFINE k == cache.key
    <3>1. k \in {SearchPath} \cup Stamps /\ file'[k[1]] = k[2] /\ k # SearchPath
      BY <2>1 DEF TypeOK, Untouched
    <3>2. Untouched(k) /\ build'[k[2]] = build[k[2]]
      BY ONLY <3>1, TypeOK, [Next]_vars, KeyStays DEF Untouched
    <3> QED BY <2>1, <3>2 DEF SuccessIsEarned, Capable
  <2> QED BY <1>1, <1>2, <2>1, <2>2, <2>3
<1> QED BY <1>4, <1>5, <1>6 DEF Next, Acts

-----------------------------------------------------------------------------
(* Consistent is an invariant: calls, cache and probe agree, a cached      *)
(* success was earned by the very file it is served for, and a probe       *)
(* directory is gone when its socket is, whatever is installed, removed or *)
(* fails between the steps of ensure_supported().                          *)
THEOREM Consistency == Spec => []Consistent
<1>1. Init => Consistent
  <2> SUFFICES ASSUME Init PROVE Consistent
    OBVIOUS
  <2>1. /\ Dirs \in Nat \ {0} /\ Bases \in Nat \ {0} /\ Ttl \in Nat \ {0} /\ MaxMishaps \in Nat
        /\ Len(Features) \in Nat \ {0} /\ LastStep \in Nat /\ MaxFiles \in Nat
    BY YdotoolProbeAssumption DEF LastStep
  <2>2. build = <<>> /\ Len(build) = 0 /\ build \in Seq(Builds)
    BY DEF Init
  <2>3. cache \in [key : {SearchPath} \cup Stamps, ok : BOOLEAN, age : 0..Ttl, saw : SUBSET Stamps]
    BY <2>1 DEF Init, Nothing
  <2>4. TypeOK
    BY <2>1, <2>2, <2>3 DEF Init, TypeOK
  <2>5. MutexInv /\ FileInv /\ EarnedInv /\ SuccessIsEarned /\ SocketInv
    BY YdotoolProbeAssumption DEF Init, MutexInv, FileInv, EarnedInv, SuccessIsEarned, SocketInv,
       Probing, Nothing
  <2> QED BY <2>4, <2>5 DEF Consistent, IInv
<1>2. Consistent /\ [Next]_vars => Consistent'
  BY TypeStep, MutexStep, FileStep, EarnedStep, SocketStep DEF Consistent, IInv
<1> QED BY <1>1, <1>2, PTL DEF Spec

=============================================================================
