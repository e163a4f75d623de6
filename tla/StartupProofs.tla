--------------------------- MODULE StartupProofs ---------------------------
(***************************************************************************)
(* Proofs about FileAccess and Startup, for any configuration, any tree of *)
(* directories, any users, groups and changes of the user database, any    *)
(* lifetime of the cache and any duration of an enumeration:               *)
(*   - a decision that rests on the members of a group rests on a recent   *)
(*     enumeration;                                                        *)
(*   - the start of a run is a run of FileAccess with particular callers;  *)
(*   - when the groups are entered, every directory on the way to a file   *)
(*     in use has been judged.                                             *)
(***************************************************************************)
EXTENDS Startup, Integers, TLAPS

(***************************************************************************)
(* Group membership: the inductive invariant. The age of what is decided   *)
(* on is bounded only because the age of what is stored is, and that       *)
(* because the steps of the clock during one enumeration are counted.      *)
(***************************************************************************)
Entry == [members : SUBSET Users, at : Nat, expiry : Nat]
Asked == [stage : {"check", "store", "granted", "denied"}, inst : Instances, uid : Users, gid : Groups,
          want : {"member", "sole"}, found : SUBSET Users, at : Nat, ticks : Nat]
Granted == [uid : Users, gid : Groups, want : {"member", "sole"}, found : SUBSET Users, at : Nat, when : Nat]

AccessTypeOK ==
  /\ now \in Nat
  /\ members \in Databases
  /\ cache \in [Instances -> [Groups -> Entry]]
  /\ query \in {NoQuery} \cup Asked
  /\ grants \subseteq Granted

\* A stored membership counts for at most the lifetime and one enumeration from when it was read.
EntryInv ==
  \A i \in Instances, g \in Groups :
    cache[i][g].expiry <= cache[i][g].at + CacheTimeout + EnumTime

\* An enumeration under way has lasted for the ticks counted, which are bounded.
QueryInv ==
  /\ query.stage = "check" => query.ticks = 0
  /\ query.stage = "store" => now = query.at + query.ticks /\ query.ticks <= EnumTime

AccessInv == AccessTypeOK /\ EntryInv /\ QueryInv /\ AccessByRecentMembership

----------------------------------------------------------------------------
\* A new cache is empty and nothing has been granted (New).
LEMMA InitAccess == AccessInit /\ members \in Databases => AccessInv
  BY TimesAssumption
     DEF AccessInit, AccessInv, AccessTypeOK, EntryInv, QueryInv, AccessByRecentMembership,
         Entry, NoEntry, NoQuery, Instances

\* A question that is under way is a record with all its fields.
LEMMA AskedQuery ==
  ASSUME AccessTypeOK, query.stage # "none"
  PROVE  query \in Asked
  BY DEF AccessTypeOK, NoQuery

\* What an enumeration finds is a set of users (getGroupMembers).
LEMMA EnumeratedUsers ==
  ASSUME members \in Databases, NEW gid \in Groups
  PROVE  EnumeratedMembers(gid) \in SUBSET Users
<1>1. members[gid] \in [listed : BOOLEAN, explicit : SUBSET Users, primary : SUBSET Users]
  BY DEF Databases
<1>2. CASE members[gid].listed
  <2>1. UNION {members[gid].explicit} = members[gid].explicit
    OBVIOUS
  <2>2. EnumeratedMembers(gid) = members[gid].explicit \cup members[gid].primary
    <3>1. FindGroupByGID(gid) = {members[gid].explicit}
      BY <1>2 DEF FindGroupByGID
    <3>2. FindGroupByGID(gid) # {}
      BY <3>1
    <3> QED
      BY <2>1, <3>1, <3>2 DEF EnumeratedMembers, FindUsersWithPrimaryGID
  <2> QED
    BY <1>1, <2>2
<1>3. CASE ~members[gid].listed
  BY <1>3 DEF EnumeratedMembers, FindGroupByGID
<1> QED
  BY <1>2, <1>3

\* The cleanup removes entries and changes none (clearExpiredCache).
LEMMA CleanedEntries ==
  ASSUME NEW entries \in [Groups -> Entry],
         \A g \in Groups : entries[g].expiry <= entries[g].at + CacheTimeout + EnumTime
  PROVE  /\ ClearExpiredCache(entries) \in [Groups -> Entry]
         /\ \A g \in Groups : ClearExpiredCache(entries)[g].expiry
                                <= ClearExpiredCache(entries)[g].at + CacheTimeout + EnumTime
  BY TimesAssumption DEF ClearExpiredCache, NoEntry, Entry

\* A decision taken on a membership that is recent enough (IsUserInGroup, isUserOnlyGroupMember).
LEMMA AnswerRecent ==
  ASSUME AccessInv, query \in Asked, NEW found \in SUBSET Users, NEW at \in Nat,
         now - at < CacheTimeout + EnumTime, Answer(query, found, at)
  PROVE  /\ query' \in Asked /\ query'.stage \in {"granted", "denied"}
         /\ grants' \subseteq Granted
         /\ AccessByRecentMembership'
<1> now \in Nat /\ grants \subseteq Granted
  BY DEF AccessInv, AccessTypeOK
<1>1. query' \in Asked /\ query'.stage \in {"granted", "denied"}
  BY DEF Answer, Asked
<1>2. Grant(query, found, at) \in Granted
  BY DEF Grant, Granted, Asked
<1>3. grants' \subseteq Granted
  BY <1>2 DEF Answer
<1>4. ASSUME Satisfied(query, found)
      PROVE  LET g == Grant(query, found, at)
             IN /\ g.when - g.at < CacheTimeout + EnumTime
                /\ IF g.want = "member" THEN g.uid \in g.found ELSE g.found = {g.uid}
  BY <1>4 DEF Grant, Satisfied
<1>5. \A g \in grants' : g \in grants \/ (Satisfied(query, found) /\ g = Grant(query, found, at))
  BY DEF Answer
<1>6. AccessByRecentMembership'
  BY <1>4, <1>5 DEF AccessInv, AccessByRecentMembership
<1> QED
  BY <1>1, <1>3, <1>6

----------------------------------------------------------------------------
(* Each step keeps the invariant.                                          *)

\* A caller asks: nothing has been counted yet.
LEMMA AskStep ==
  ASSUME AccessInv, NEW inst \in Instances, NEW uid \in Users, NEW gid \in Groups,
         NEW want \in {"member", "sole"}, AskGroup(inst, uid, gid, want)
  PROVE  AccessInv'
<1>1. query' \in Asked /\ query'.stage = "check" /\ query'.ticks = 0
  BY DEF AskGroup, Ask, Asked
<1> QED
  BY <1>1 DEF AccessInv, AccessTypeOK, EntryInv, QueryInv, AccessByRecentMembership, AskGroup

\* A fresh entry has not reached its expiry, hence is no older than an entry may be.
LEMMA HitStep ==
  ASSUME AccessInv, CacheHit
  PROVE  AccessInv'
<1>1. query \in Asked
  BY AskedQuery DEF AccessInv, CacheHit
<1> DEFINE e == cache[query.inst][query.gid]
<1>2. query.inst \in Instances /\ query.gid \in Groups
  BY <1>1 DEF Asked
<1>3. e \in Entry /\ e.expiry <= e.at + CacheTimeout + EnumTime
  BY <1>2 DEF AccessInv, AccessTypeOK, EntryInv
<1>4. e.members \in SUBSET Users /\ e.at \in Nat /\ e.expiry \in Nat
  BY <1>3 DEF Entry
<1>5. now < e.expiry
  BY DEF CacheHit, Fresh
<1>6. now - e.at < CacheTimeout + EnumTime
  BY <1>3, <1>4, <1>5, TimesAssumption DEF AccessInv, AccessTypeOK
<1>7. Answer(query, e.members, e.at)
  BY DEF CacheHit
<1>8. query' \in Asked /\ query'.stage \in {"granted", "denied"} /\ grants' \subseteq Granted
      /\ AccessByRecentMembership'
  BY <1>1, <1>4, <1>6, <1>7, AnswerRecent
<1>9. UNCHANGED <<now, members, cache>>
  BY DEF CacheHit
<1> QED
  BY <1>8, <1>9 DEF AccessInv, AccessTypeOK, EntryInv, QueryInv

\* The cleanup keeps the entries' ages; the enumeration begins to be counted.
LEMMA EnumerateStep ==
  ASSUME AccessInv, EnumerateGroupMembers
  PROVE  AccessInv'
<1>1. query \in Asked
  BY AskedQuery DEF AccessInv, EnumerateGroupMembers
<1>2. query.inst \in Instances /\ query.gid \in Groups /\ query.ticks = 0
  BY <1>1 DEF Asked, AccessInv, QueryInv, EnumerateGroupMembers
<1>3. cache' \in [Instances -> [Groups -> Entry]] /\ EntryInv'
  <2>1. CASE cache' = cache
    BY <2>1 DEF AccessInv, AccessTypeOK, EntryInv
  <2>2. CASE cache' = [cache EXCEPT ![query.inst] = ClearExpiredCache(@)]
    <3>1. cache[query.inst] \in [Groups -> Entry]
          /\ \A g \in Groups : cache[query.inst][g].expiry
                                 <= cache[query.inst][g].at + CacheTimeout + EnumTime
      BY <1>2 DEF AccessInv, AccessTypeOK, EntryInv
    <3>2. /\ ClearExpiredCache(cache[query.inst]) \in [Groups -> Entry]
          /\ \A g \in Groups : ClearExpiredCache(cache[query.inst])[g].expiry
                                 <= ClearExpiredCache(cache[query.inst])[g].at + CacheTimeout + EnumTime
      BY <3>1, CleanedEntries
    <3>3. cache' = [cache EXCEPT ![query.inst] = ClearExpiredCache(cache[query.inst])]
      BY <2>2
    <3> QED
      BY <1>2, <3>2, <3>3 DEF AccessInv, AccessTypeOK, EntryInv
  <2> QED
    BY <2>1, <2>2 DEF EnumerateGroupMembers
<1>4. UNCHANGED <<now, members, grants>>
  BY DEF EnumerateGroupMembers
<1>5. query' \in Asked /\ QueryInv'
  <2>1. now \in Nat /\ EnumeratedMembers(query.gid) \in SUBSET Users
    BY <1>2, EnumeratedUsers DEF AccessInv, AccessTypeOK
  <2>2. CASE query' = [query EXCEPT !.stage = "store", !.found = EnumeratedMembers(query.gid), !.at = now]
    <3>1. query' \in Asked
      BY <1>1, <2>1, <2>2 DEF Asked
    <3>2. query'.stage = "store" /\ query'.at = now /\ query'.ticks = 0
      BY <1>1, <1>2, <2>2 DEF Asked
    <3> QED
      BY <1>4, <2>1, <3>1, <3>2, TimesAssumption DEF QueryInv
  <2>3. CASE query' = [query EXCEPT !.stage = "denied"]
    BY <1>1, <2>3 DEF Asked, QueryInv
  <2> QED
    BY <2>2, <2>3 DEF EnumerateGroupMembers
<1> QED
  BY <1>3, <1>4, <1>5 DEF AccessInv, AccessTypeOK, AccessByRecentMembership

\* What was enumerated is stored with the lifetime counted from now, at most one enumeration later.
LEMMA StoreStep ==
  ASSUME AccessInv, StoreMembers
  PROVE  AccessInv'
<1>1. query \in Asked
  BY AskedQuery DEF AccessInv, StoreMembers
<1>2. /\ query.inst \in Instances /\ query.gid \in Groups /\ query.found \in SUBSET Users
      /\ query.at \in Nat /\ query.ticks \in Nat /\ now \in Nat
      /\ now = query.at + query.ticks /\ query.ticks <= EnumTime
  BY <1>1 DEF Asked, AccessInv, AccessTypeOK, QueryInv, StoreMembers
<1>3. query' \in Asked /\ query'.stage \in {"granted", "denied"} /\ grants' \subseteq Granted
      /\ AccessByRecentMembership'
  <2>1. now - query.at < CacheTimeout + EnumTime
    BY <1>2, TimesAssumption
  <2>2. Answer(query, query.found, query.at)
    BY DEF StoreMembers
  <2> QED
    BY <1>1, <1>2, <2>1, <2>2, AnswerRecent
<1>4. EntryStored(query) \in Entry
      /\ EntryStored(query).expiry <= EntryStored(query).at + CacheTimeout + EnumTime
  BY <1>2, TimesAssumption DEF EntryStored, Entry
<1>5. cache' \in [Instances -> [Groups -> Entry]] /\ EntryInv'
  BY <1>2, <1>4 DEF AccessInv, AccessTypeOK, EntryInv, StoreMembers
<1>6. UNCHANGED <<now, members>>
  BY DEF StoreMembers
<1> QED
  BY <1>3, <1>5, <1>6 DEF AccessInv, AccessTypeOK, QueryInv

\* The clock: what is stored ages, and a tick during an enumeration is counted.
LEMMA TickStep ==
  ASSUME AccessInv, Tick
  PROVE  AccessInv'
<1>1. now' \in Nat /\ UNCHANGED <<members, cache, grants>>
  BY DEF Tick, AccessInv, AccessTypeOK
<1>2. query' \in {NoQuery} \cup Asked /\ QueryInv'
  <2>1. CASE query.stage = "store"
    <3>1. query \in Asked
      BY <2>1, AskedQuery DEF AccessInv
    <3>2. query' = [query EXCEPT !.ticks = query.ticks + 1] /\ now' = now + 1 /\ query.ticks < EnumTime
      BY <2>1 DEF Tick
    <3> QED
      BY <2>1, <3>1, <3>2, TimesAssumption DEF AccessInv, AccessTypeOK, QueryInv, Asked
  <2>2. CASE query.stage # "store"
    BY <2>2 DEF Tick, AccessInv, AccessTypeOK, QueryInv
  <2> QED
    BY <2>1, <2>2
<1> QED
  BY <1>1, <1>2 DEF AccessInv, AccessTypeOK, EntryInv, AccessByRecentMembership

\* The user database changes; what was read from it does not.
LEMMA ChangeStep ==
  ASSUME AccessInv, ChangeMembership
  PROVE  AccessInv'
<1>1. members' \in Databases
  <2>1. PICK g \in Groups, u \in Users :
          members' = [members EXCEPT ![g].explicit = IF u \in @ THEN @ \ {u} ELSE @ \cup {u}]
    BY DEF ChangeMembership
  <2> DEFINE line == [listed : BOOLEAN, explicit : SUBSET Users, primary : SUBSET Users]
             new == IF u \in members[g].explicit THEN members[g].explicit \ {u}
                    ELSE members[g].explicit \cup {u}
  <2>2. members \in [Groups -> line]
    BY DEF AccessInv, AccessTypeOK, Databases
  <2>3. members[g] \in line
    BY <2>2
  <2>4. new \in SUBSET Users
    BY <2>3
  <2>5. [members[g] EXCEPT !.explicit = new] \in line
    BY <2>3, <2>4
  <2>6. members' = [members EXCEPT ![g] = [members[g] EXCEPT !.explicit = new]]
    BY <2>1
  <2>7. members' \in [Groups -> line]
    BY <2>2, <2>5, <2>6
  <2> QED
    BY <2>7 DEF Databases
<1> QED
  BY <1>1 DEF ChangeMembership, AccessInv, AccessTypeOK, EntryInv, QueryInv, AccessByRecentMembership

\* No step of the component, and none that leaves it alone, breaks the invariant.
LEMMA AccessStep == AccessInv /\ [AccessNext]_accessVars => AccessInv'
<1> SUFFICES ASSUME AccessInv, [AccessNext]_accessVars
             PROVE  AccessInv'
  OBVIOUS
<1>1. ASSUME NEW inst \in Instances, NEW uid \in Users, NEW gid \in Groups,
             NEW want \in {"member", "sole"}, AskGroup(inst, uid, gid, want)
      PROVE  AccessInv'
  BY <1>1, AskStep
<1>2. CASE CacheHit
  BY <1>2, HitStep
<1>3. CASE EnumerateGroupMembers
  BY <1>3, EnumerateStep
<1>4. CASE StoreMembers
  BY <1>4, StoreStep
<1>5. CASE TakeAnswer
  BY <1>5 DEF TakeAnswer, NoQuery, AccessInv, AccessTypeOK, EntryInv, QueryInv, AccessByRecentMembership
<1>6. CASE Tick
  BY <1>6, TickStep
<1>7. CASE ChangeMembership
  BY <1>7, ChangeStep
<1>8. CASE UNCHANGED accessVars
  BY <1>8 DEF accessVars, AccessInv, AccessTypeOK, EntryInv, QueryInv, AccessByRecentMembership
<1> QED
  BY <1>1, <1>2, <1>3, <1>4, <1>5, <1>6, <1>7, <1>8 DEF AccessNext

\* A decision that rests on a group never rests on an enumeration older than the lifetime of the
\* cache and the longest enumeration, for any callers and however the database changes
\* (GetGroupMembers).
THEOREM AccessTheorem == AccessSpec => []AccessByRecentMembership
<1>1. AccessInv => AccessByRecentMembership
  BY DEF AccessInv
<1> QED
  BY InitAccess, AccessStep, <1>1, PTL DEF AccessSpec

(***************************************************************************)
(* The start of a run: the invariant.                                      *)
(***************************************************************************)
\* The configuration, the process and the file system are those of a scenario.
Given == \E s \in Scenarios : cfg = s.cfg /\ who = s.who /\ node = s.node

StartTypeOK ==
  /\ level \in {"global", "group", "command"}
  /\ DOMAIN rt = {"global", "group", "command"}
  /\ reading \in DOMAIN node
  /\ included \in Nat /\ included <= Len(cfg.includes)
  /\ starts \in Seq(SUBSET DOMAIN Parent)
  /\ dirs \in Seq(DOMAIN Parent)
  /\ component \in {"none"} \cup DOMAIN Parent

\* What is done before the directories are collected, and after the first group is entered.
Before == {"start", "boot", "read", "includes", "parse", "merge", "import", "vars", "expand", "env",
           "templates", "directories"}
After == {"import", "vars", "expand", "env", "commands", "fields", "workdir", "environment", "done", "failed"}

PhaseInv ==
  /\ IF level = "global" THEN step \in Before \cup {"collecting", "checking", "group", "done", "failed"}
     ELSE step \in After
  /\ level = "global" /\ step \in Before => dirs = <<>> /\ component = "none"

\* A question is asked while reading, or for the directory that is being checked.
AskInv ==
  /\ query # NoQuery => step \in {"read", "checking"}
  /\ query # NoQuery /\ step = "checking" =>
       /\ component # "none" /\ node[component].kind = "dir"
       /\ ValidateDirectoryComponentPermissions(node[component]) = "sole"
       /\ query.want = "sole" /\ query.gid = node[component].gid
  /\ query.stage = "granted" => \E g \in grants : g.want = query.want /\ g.gid = query.gid

\* The directories a run needs, and one that only root and the user may change.
Starting == {HashDir} \cup UNION {DirsOf(t) : t \in Range(ReferencedPaths)}
Safe(d) == node[d].kind = "dir" => MayReplace(node[d]) \subseteq {Root, who.real}

\* What is collected has every parent, but for the one that is being added; nothing is forgotten.
CollectInv ==
  step = "collecting" =>
    /\ \A i \in DOMAIN starts : \A x, y \in starts[i] : x = y
    /\ \A d \in Range(dirs) : Parent[d] \in Range(dirs) \/ Parent[d] = component
    /\ \A d \in Starting : \/ d \in Range(dirs)
                           \/ d = component
                           \/ \E i \in DOMAIN starts : d \in starts[i]

\* A directory in use is waiting, being checked, or found safe, unless the run will be refused.
CheckInv ==
  step = "checking" =>
    \A d \in DirectoriesInUse : d \in Range(dirs) \/ d = component \/ Safe(d) \/ violations # {}

SafeInv == step = "group" \/ level # "global" => \A d \in DirectoriesInUse : Safe(d)

StartInv == /\ AccessInv /\ Given /\ StartTypeOK /\ PhaseInv /\ AskInv
            /\ CollectInv /\ CheckInv /\ SafeInv

----------------------------------------------------------------------------
(* Operators.                                                              *)

\* What a scenario gives.
LEMMA GivenFacts ==
  ASSUME Given
  PROVE  /\ who.real \in Users
         /\ "config" \in DOMAIN node /\ DOMAIN Parent \subseteq DOMAIN node
         /\ \A n \in DOMAIN node : node[n].gid \in Groups
         /\ Len(cfg.includes) \in Nat
         /\ \A i \in 1..Len(cfg.includes) : cfg.includes[i].file \in DOMAIN node
         /\ cfg.global.files \in Seq(Texts) /\ cfg.group.files \in Seq(Texts)
         /\ Len(cfg.commands) \in Nat /\ DOMAIN cfg.commands = 1..Len(cfg.commands)
<1>1. PICK s \in Scenarios : cfg = s.cfg /\ who = s.who /\ node = s.node
  BY DEF Given
<1> QED
  BY <1>1, ScenarioAssumption

\* The user whose permission counts is one of the system, when there is one (resolvePermissionCheckUID).
LEMMA CheckedUser ==
  ASSUME Given, ResolvePermissionCheckUID # NoUser
  PROVE  ResolvePermissionCheckUID \in Users
<1>1. who.real \in Users
  BY GivenFacts
<1>2. who.sudo # {} => (CHOOSE u \in who.sudo : TRUE) \in who.sudo
  OBVIOUS
<1> QED
  BY <1>1, <1>2 DEF ResolvePermissionCheckUID

\* The elements of a sequence that loses its first or gets one more.
LEMMA RangeTail ==
  ASSUME NEW S, NEW s \in Seq(S), s # <<>>
  PROVE  /\ Tail(s) \in Seq(S) /\ Head(s) \in S
         /\ \A x \in Range(s) : x = Head(s) \/ x \in Range(Tail(s))
<1>1. Len(s) \in Nat \ {0} /\ DOMAIN s = 1..Len(s) /\ Tail(s) \in Seq(S) /\ Head(s) = s[1] /\ Head(s) \in S
      /\ DOMAIN Tail(s) = 1..(Len(s) - 1)
  OBVIOUS
<1>2. \A i \in 1..(Len(s) - 1) : Tail(s)[i] = s[i + 1]
  OBVIOUS
<1>3. \A i \in DOMAIN s : i = 1 \/ (i - 1 \in DOMAIN Tail(s) /\ Tail(s)[i - 1] = s[i])
  BY <1>1, <1>2
<1> QED
  BY <1>1, <1>3 DEF Range

LEMMA RangeAppend ==
  ASSUME NEW S, NEW s \in Seq(S), NEW e \in S
  PROVE  Append(s, e) \in Seq(S) /\ Range(Append(s, e)) = Range(s) \cup {e}
<1>1. Append(s, e) \in Seq(S) /\ Len(s) \in Nat /\ DOMAIN s = 1..Len(s) /\ DOMAIN Append(s, e) = 1..(Len(s) + 1)
      /\ Append(s, e)[Len(s) + 1] = e /\ \A i \in 1..Len(s) : Append(s, e)[i] = s[i]
  OBVIOUS
<1>2. \A i \in DOMAIN Append(s, e) : Append(s, e)[i] \in Range(s) \cup {e}
  BY <1>1 DEF Range
<1>3. \A x \in Range(s) \cup {e} : \E i \in DOMAIN Append(s, e) : Append(s, e)[i] = x
  BY <1>1 DEF Range
<1> QED
  BY <1>1, <1>2, <1>3 DEF Range

LEMMA OneMore ==
  ASSUME NEW S, NEW s \in Seq(S), NEW e \in S
  PROVE  /\ s \o <<e>> \in Seq(S) /\ DOMAIN (s \o <<e>>) = 1..(Len(s) + 1)
         /\ \A i \in 1..Len(s) : (s \o <<e>>)[i] = s[i]
         /\ (s \o <<e>>)[Len(s) + 1] = e
  OBVIOUS

\* The directory of a path is one of the tree (filepath.Dir).
LEMMA DirInTree == \A p : Dir(p) \in DOMAIN Parent
  BY TreeAssumption DEF Dir

LEMMA DirsInTree == \A t : DirsOf(t) \in SUBSET DOMAIN Parent /\ \A x, y \in DirsOf(t) : x = y
<1>1. \A t : \A p, q \in ResolveStaticAbsPath(t) : p = q
  BY DEF ResolveStaticAbsPath
<1> QED
  BY <1>1, DirInTree DEF DirsOf

\* The way to the root is within every set that has the directory and every parent.
LEMMA WayWithin ==
  ASSUME NEW S \in SUBSET DOMAIN Parent, \A y \in S : Parent[y] \in S, NEW d \in S
  PROVE  WayToRoot(d) \subseteq S
  BY DEF WayToRoot

LEMMA InUseInTree == DirectoriesInUse \subseteq DOMAIN Parent
  BY DEF DirectoriesInUse, WayToRoot

\* Above a directory there is its parent or nothing.
LEMMA AboveInTree == \A d \in DOMAIN Parent : Above(d) \in {"none"} \cup DOMAIN Parent
                                              /\ (Above(d) = Parent[d] \/ Parent[d] = d)
  BY TreeAssumption DEF Above

\* The paths are in the order of the configuration: a sequence.
LEMMA PathsAreSequence ==
  ASSUME Given
  PROVE  /\ ReferencedPaths \in Seq(Range(ReferencedPaths))
         /\ Len(ReferencedPaths) \in Nat /\ DOMAIN ReferencedPaths = 1..Len(ReferencedPaths)
<1> DEFINE A == TextsOf(ExpandTexts(cfg.global.files, rt["global"].strings))
           B == cfg.group.files
           C == [i \in DOMAIN cfg.commands |-> cfg.commands[i].cmd]
           S == Range(A) \cup Range(B) \cup Range(C)
<1>1. A \in Seq(S)
  <2>1. /\ DOMAIN A = DOMAIN cfg.global.files /\ A = [i \in DOMAIN A |-> A[i]]
    BY DEF TextsOf, ExpandTexts
  <2>2. DOMAIN cfg.global.files = 1..Len(cfg.global.files) /\ Len(cfg.global.files) \in Nat
    BY GivenFacts
  <2>3. \A i \in DOMAIN A : A[i] \in S
    BY DEF Range
  <2> HIDE DEF A, S
  <2> QED
    BY <2>1, <2>2, <2>3
<1>2. B \in Seq(S)
  <2>1. B \in Seq(Texts)
    BY GivenFacts
  <2>3. \A i \in DOMAIN B : B[i] \in S
    BY DEF Range
  <2> HIDE DEF B, S
  <2> QED
    BY <2>1, <2>3
<1>3. C \in Seq(S)
  <2>1. /\ DOMAIN C = DOMAIN cfg.commands /\ C = [i \in DOMAIN C |-> C[i]]
    OBVIOUS
  <2>2. DOMAIN cfg.commands = 1..Len(cfg.commands) /\ Len(cfg.commands) \in Nat
    BY GivenFacts
  <2>3. \A i \in DOMAIN C : C[i] \in S
    BY DEF Range
  <2> HIDE DEF C, S
  <2> QED
    BY <2>1, <2>2, <2>3
<1>4. ReferencedPaths = A \o B \o C
  BY DEF ReferencedPaths
<1> HIDE DEF A, B, C, S
<1>5. ReferencedPaths \in Seq(S)
  BY <1>1, <1>2, <1>3, <1>4
<1>6. Len(ReferencedPaths) \in Nat /\ DOMAIN ReferencedPaths = 1..Len(ReferencedPaths)
  BY <1>5
<1>7. \A i \in DOMAIN ReferencedPaths : ReferencedPaths[i] \in Range(ReferencedPaths)
  BY DEF Range
<1> QED
  BY <1>5, <1>6, <1>7

----------------------------------------------------------------------------
(* The steps of the configuration.                                         *)

\* What every step of the configuration leaves alone and where it leads.
ConfigStepped ==
  /\ cfg' = cfg
  /\ step \in {"parse", "merge", "import", "vars", "expand", "env", "templates", "group", "commands",
               "fields", "workdir", "environment"}
  /\ level' \in {"global", "group", "command"} /\ DOMAIN rt' = DOMAIN rt
  /\ level # "global" \/ step = "group" => rt'["global"] = rt["global"]
  /\ level' # "global" => (level # "global" \/ step = "group") /\ step' \in After
  /\ level' = "global" => level = "global" /\ step # "group"
                          /\ step' \in {"includes", "import", "vars", "expand", "env", "templates", "directories", "failed"}

\* A refusal.
LEMMA RefuseStep ==
  ASSUME StartTypeOK, NEW why, Refuse(why),
         step \in {"parse", "merge", "import", "vars", "expand", "env", "templates", "commands", "fields",
                  "workdir", "environment"}
  PROVE  ConfigStepped
  BY DEF Refuse, ConfigStepped, StartTypeOK, After

\* Loading, and the merge of templates.
LEMMA LoadSteps ==
  ASSUME StartTypeOK, PhaseInv, LoadConfigInternal \/ MergeTemplates
  PROVE  ConfigStepped
<1>1. CASE LoadConfigInternal
  <2>1. CASE step' = "includes" /\ UNCHANGED <<cfg, level, rt>>
    BY <1>1, <2>1 DEF LoadConfigInternal, ConfigStepped, StartTypeOK, PhaseInv, After
  <2>2. CASE Refuse("config")
    BY <1>1, <2>2, RefuseStep DEF LoadConfigInternal
  <2> QED
    BY <1>1, <2>1, <2>2 DEF LoadConfigInternal
<1>2. CASE MergeTemplates
  <2>1. CASE step' = "import" /\ UNCHANGED <<cfg, level>> /\ rt' = [rt EXCEPT !["global"].strings = GenerateGlobalAutoVars]
    BY <1>2, <2>1 DEF MergeTemplates, ConfigStepped, StartTypeOK, PhaseInv, After
  <2>2. CASE Refuse("duplicate template")
    BY <1>2, <2>2, RefuseStep DEF MergeTemplates
  <2> QED
    BY <1>2, <2>1, <2>2 DEF MergeTemplates
<1> QED
  BY <1>1, <1>2

\* Imports and variables of a level.
LEMMA LevelSteps ==
  ASSUME StartTypeOK, PhaseInv,
         ProcessEnvImport \/ ProcessVars \/ ExpandStringVar \/ ExpandArrayVar \/ VarsExpanded
  PROVE  ConfigStepped
<1> DEFINE Kept == UNCHANGED <<cfg, level>> /\ step \in {"import", "vars", "expand"}
           Within(r) == rt' = [rt EXCEPT ![level] = r]
<1>1. ASSUME Kept, rt' = rt \/ \E r : Within(r), step' \in {"vars", "expand"}
      PROVE  ConfigStepped
  BY <1>1 DEF ConfigStepped, StartTypeOK, PhaseInv, After
<1>2. CASE ProcessEnvImport
  <2>1. CASE Refuse("import")
    BY <1>2, <2>1, RefuseStep DEF ProcessEnvImport
  <2>2. CASE ~Refuse("import")
    <3>1. step = "import" /\ UNCHANGED <<cfg, level>> /\ step' = "vars"
      BY <1>2, <2>2 DEF ProcessEnvImport
    <3>2. \E f : rt' = [rt EXCEPT ![level].strings = Over(f, @), ![level].imports = @ \cup DOMAIN f]
      BY <1>2, <2>2 DEF ProcessEnvImport
    <3>3. PICK f : rt' = [rt EXCEPT ![level].strings = Over(f, @), ![level].imports = @ \cup DOMAIN f]
      BY <3>2
    <3>4. Within([rt[level] EXCEPT !.strings = Over(f, @), !.imports = @ \cup DOMAIN f])
      BY <3>3 DEF StartTypeOK
    <3> QED
      BY <1>1, <3>1, <3>4
  <2> QED
    BY <2>1, <2>2
<1>3. CASE ProcessVars
  <2>1. CASE Refuse("vars")
    BY <1>3, <2>1, RefuseStep DEF ProcessVars
  <2>2. CASE ~Refuse("vars")
    <3>1. step = "vars" /\ UNCHANGED <<cfg, level, rt>> /\ step' = "expand"
      BY <1>3, <2>2 DEF ProcessVars
    <3> QED
      BY <1>1, <3>1
  <2> QED
    BY <2>1, <2>2
<1>4. CASE ExpandStringVar
  <2>1. PICK r, n : \/ Refuse(r.err)
                    \/ rt' = [rt EXCEPT ![level].strings = Put(r.strings, n, r.text)] /\ UNCHANGED <<cfg, step, level>>
    BY <1>4 DEF ExpandStringVar
  <2>2. step = "expand"
    BY <1>4 DEF ExpandStringVar
  <2>3. CASE Refuse(r.err)
    BY <2>2, <2>3, RefuseStep
  <2>4. CASE rt' = [rt EXCEPT ![level].strings = Put(r.strings, n, r.text)] /\ UNCHANGED <<cfg, step, level>>
    <3>1. Within([rt[level] EXCEPT !.strings = Put(r.strings, n, r.text)])
      BY <2>4
    <3> QED
      BY <1>1, <2>2, <2>4, <3>1
  <2> QED
    BY <2>1, <2>3, <2>4
<1>5. CASE ExpandArrayVar
  <2>1. PICK r, n : \/ Refuse(r.err)
                    \/ /\ rt' = [rt EXCEPT ![level].strings = r.strings, ![level].arrays = Put(@, n, r.text)]
                       /\ UNCHANGED <<cfg, step, level>>
    BY <1>5 DEF ExpandArrayVar
  <2>2. step = "expand"
    BY <1>5 DEF ExpandArrayVar
  <2>3. CASE Refuse(r.err)
    BY <2>2, <2>3, RefuseStep
  <2>4. CASE ~Refuse(r.err)
    <3>1. Within([rt[level] EXCEPT !.strings = r.strings, !.arrays = Put(@, n, r.text)])
      BY <2>1, <2>4 DEF StartTypeOK
    <3> QED
      BY <1>1, <2>1, <2>2, <2>4, <3>1
  <2> QED
    BY <2>3, <2>4
<1>6. CASE VarsExpanded
  BY <1>6 DEF VarsExpanded, ConfigStepped, StartTypeOK, PhaseInv, After
<1> QED
  BY <1>2, <1>3, <1>4, <1>5, <1>6

\* From level to level, and the fields of a command.
LEMMA OtherSteps ==
  ASSUME StartTypeOK, PhaseInv,
         \/ ExpandEnvAndFiles \/ ValidateAllTemplates \/ ExpandGroup \/ ResolveAndPrepareCommandSpec
         \/ ExpandCommandFields \/ ExpandWorkDir \/ BuildProcessEnvironment
  PROVE  ConfigStepped
<1>1. CASE ExpandEnvAndFiles
  <2>1. \/ \E why : Refuse(why)
        \/ step' = (IF level = "global" THEN "templates" ELSE "commands") /\ UNCHANGED <<cfg, level, rt>>
    BY <1>1 DEF ExpandEnvAndFiles
  <2>2. step = "env"
    BY <1>1 DEF ExpandEnvAndFiles
  <2>3. CASE \E why : Refuse(why)
    BY <2>2, <2>3, RefuseStep
  <2>4. CASE step' = (IF level = "global" THEN "templates" ELSE "commands") /\ UNCHANGED <<cfg, level, rt>>
    BY <2>2, <2>4 DEF ConfigStepped, StartTypeOK, PhaseInv, After
  <2> QED
    BY <2>1, <2>3, <2>4
<1>2. CASE ValidateAllTemplates
  <2>1. CASE Refuse("template")
    BY <1>2, <2>1, RefuseStep DEF ValidateAllTemplates
  <2>2. CASE ~Refuse("template")
    BY <1>2, <2>2 DEF ValidateAllTemplates, ConfigStepped, StartTypeOK, PhaseInv, After
  <2> QED
    BY <2>1, <2>2
<1>3. CASE ExpandGroup
  BY <1>3 DEF ExpandGroup, ConfigStepped, StartTypeOK, PhaseInv, After
<1>4. CASE ResolveAndPrepareCommandSpec
  <2>1. \/ \E why : Refuse(why)
        \/ /\ level' = "command" /\ step' = "import" /\ rt' = [rt EXCEPT !["command"] = InheritGroup(rt)]
           /\ UNCHANGED cfg
    BY <1>4 DEF ResolveAndPrepareCommandSpec
  <2>2. step = "commands"
    BY <1>4 DEF ResolveAndPrepareCommandSpec
  <2>3. CASE \E why : Refuse(why)
    BY <2>2, <2>3, RefuseStep
  <2>4. CASE ~\E why : Refuse(why)
    BY <2>1, <2>2, <2>4 DEF ConfigStepped, StartTypeOK, PhaseInv, Before, After
  <2> QED
    BY <2>3, <2>4
<1>5. CASE ExpandCommandFields
  <2>1. (\E why : Refuse(why)) \/ (step' = "workdir" /\ UNCHANGED <<cfg, level, rt>>)
    BY <1>5 DEF ExpandCommandFields
  <2>2. step = "fields"
    BY <1>5 DEF ExpandCommandFields
  <2>3. CASE \E why : Refuse(why)
    BY <2>2, <2>3, RefuseStep
  <2>4. CASE ~\E why : Refuse(why)
    BY <2>1, <2>2, <2>4 DEF ConfigStepped, StartTypeOK, PhaseInv, Before, After
  <2> QED
    BY <2>3, <2>4
<1>6. CASE ExpandWorkDir
  <2>1. (\E why : Refuse(why)) \/ (step' = "environment" /\ UNCHANGED <<cfg, level, rt>>)
    BY <1>6 DEF ExpandWorkDir
  <2>2. step = "workdir"
    BY <1>6 DEF ExpandWorkDir
  <2>3. CASE \E why : Refuse(why)
    BY <2>2, <2>3, RefuseStep
  <2>4. CASE ~\E why : Refuse(why)
    BY <2>1, <2>2, <2>4 DEF ConfigStepped, StartTypeOK, PhaseInv, Before, After
  <2> QED
    BY <2>3, <2>4
<1>7. CASE BuildProcessEnvironment
  <2>1. step = "environment" /\ step' \in {"done", "commands"} /\ UNCHANGED <<cfg, level, rt>>
    BY <1>7 DEF BuildProcessEnvironment
  <2> QED
    BY <2>1 DEF ConfigStepped, StartTypeOK, PhaseInv, Before, After
<1> QED
  BY <1>1, <1>2, <1>3, <1>4, <1>5, <1>6, <1>7

\* One configuration step, whichever.
LEMMA ConfigStep ==
  ASSUME StartTypeOK, PhaseInv, ConfigNext
  PROVE  ConfigStepped
  BY LoadSteps, LevelSteps, OtherSteps DEF ConfigNext

----------------------------------------------------------------------------
(* The start is a run of FileAccess.                                       *)

\* A question about a file is asked for a user and a group of the system (CanCurrentUserSafelyReadFile).
LEMMA ReadAsks ==
  ASSUME StartInv, SafeReadFile
  PROVE  [AccessNext]_accessVars
<1> DEFINE n == node[reading]
<1>1. CASE UNCHANGED accessVars
  BY <1>1
<1>2. CASE CanCurrentUserSafelyReadFile(n) = "member" /\ AskGroup("files", ResolvePermissionCheckUID, n.gid, "member")
  <2>1. ResolvePermissionCheckUID # NoUser
    BY <1>2 DEF CanCurrentUserSafelyReadFile
  <2>2. ResolvePermissionCheckUID \in Users
    BY <2>1, CheckedUser DEF StartInv
  <2>3. n.gid \in Groups
    BY GivenFacts DEF StartInv, StartTypeOK
  <2> QED
    BY <1>2, <2>2, <2>3 DEF AccessNext, Instances
<1> QED
  BY <1>1, <1>2 DEF SafeReadFile

\* A question about a directory is asked for the real user (validateGroupWritePermissions).
LEMMA CheckAsks ==
  ASSUME StartInv, ValidateDirectoryHierarchy
  PROVE  [AccessNext]_accessVars
<1> DEFINE n == node[component]
<1>1. CASE UNCHANGED accessVars
  BY <1>1
<1>2. CASE AskGroup("dirs", who.real, n.gid, "sole")
  <2>1. component # "none"
    BY DEF ValidateDirectoryHierarchy
  <2>2. component \in DOMAIN node
    BY <2>1, GivenFacts DEF StartInv, StartTypeOK
  <2>3. n.gid \in Groups /\ who.real \in Users
    BY <2>2, GivenFacts DEF StartInv
  <2> QED
    BY <1>2, <2>3 DEF AccessNext, Instances
<1> QED
  BY <1>1, <1>2 DEF ValidateDirectoryHierarchy

\* Every step of the start is a step of FileAccess or leaves its variables alone.
LEMMA AccessRefined ==
  ASSUME StartInv, [Next]_vars
  PROVE  [AccessNext]_accessVars
<1>1. CASE Boot \/ EnsurePermissionCheckUID \/ ProcessIncludes \/ RunTOCTOUCheck \/ CollectTOCTOUCheckDirs
           \/ ValidateDirectoryPermissions \/ TOCTOUCheckDone \/ Expand
  BY <1>1 DEF Boot, EnsurePermissionCheckUID, ProcessIncludes, RunTOCTOUCheck, CollectTOCTOUCheckDirs,
              ValidateDirectoryPermissions, TOCTOUCheckDone, Expand
<1>2. CASE SafeReadFile
  BY <1>2, ReadAsks
<1>3. CASE ValidateDirectoryHierarchy
  BY <1>3, CheckAsks
<1>4. CASE ReadDecided \/ ComponentDecided
  BY <1>4 DEF ReadDecided, ComponentDecided, AccessNext
<1>5. CASE Access
  BY <1>5 DEF Access, AccessNext
<1>6. CASE Elsewhere
  BY <1>6 DEF Elsewhere, AccessNext
<1>7. CASE UNCHANGED vars
  BY <1>7 DEF vars
<1> QED
  BY <1>1, <1>2, <1>3, <1>4, <1>5, <1>6, <1>7 DEF Next

\* No step of FileAccess takes a decision back or changes a file.
LEMMA AccessFrame ==
  ASSUME [AccessNext]_accessVars
  PROVE  UNCHANGED <<who, node>> /\ grants \subseteq grants'
<1>1. CASE CacheHit
  BY <1>1 DEF CacheHit, Answer
<1>2. CASE StoreMembers
  BY <1>2 DEF StoreMembers, Answer
<1>3. CASE EnumerateGroupMembers \/ TakeAnswer \/ Tick \/ ChangeMembership
  BY <1>3 DEF EnumerateGroupMembers, TakeAnswer, Tick, ChangeMembership
<1>4. ASSUME NEW inst, NEW uid, NEW gid, NEW want, AskGroup(inst, uid, gid, want)
      PROVE  UNCHANGED <<who, node>> /\ grants \subseteq grants'
  BY <1>4 DEF AskGroup
<1>5. CASE UNCHANGED accessVars
  BY <1>5 DEF accessVars
<1> QED
  BY <1>1, <1>2, <1>3, <1>4, <1>5 DEF AccessNext

----------------------------------------------------------------------------
(* Directories.                                                            *)

\* The directories in use depend on the configuration and the global variables only.
LEMMA SameDirectories ==
  ASSUME cfg' = cfg, rt'["global"] = rt["global"]
  PROVE  ReferencedPaths' = ReferencedPaths /\ Starting' = Starting /\ DirectoriesInUse' = DirectoriesInUse
<1>1. ReferencedPaths' = ReferencedPaths
  BY DEF ReferencedPaths
<1> QED
  BY <1>1 DEF Starting, DirectoriesInUse

\* More decisions make no directory less safe.
LEMMA StaysSafe ==
  ASSUME UNCHANGED <<who, node>>, grants \subseteq grants', NEW d, Safe(d)
  PROVE  Safe(d)'
  BY DEF Safe, MayReplace

\* A directory whose bits pass is safe (validateDirectoryComponentPermissions).
LEMMA PassedIsSafe ==
  ASSUME NEW n, ValidateDirectoryComponentPermissions(n) = "yes"
  PROVE  MayReplace(n) \subseteq {Root, who.real}
<1>1. ~("ow" \in n.mode /\ "sticky" \notin n.mode)
  BY DEF ValidateDirectoryComponentPermissions
<1>2. OwnerAcceptable(n)
  BY DEF ValidateDirectoryComponentPermissions
<1>3. "gw" \in n.mode /\ "sticky" \notin n.mode => n.uid = Root /\ n.gid = RootGroup
  BY <1>1 DEF ValidateDirectoryComponentPermissions, ValidateGroupWritePermissions, IsTrustedGroup,
              CanUserSafelyWriteFile
<1> QED
  BY <1>1, <1>2, <1>3 DEF MayReplace, OwnerAcceptable

\* So is one whose group has the user alone.
LEMMA SoleIsSafe ==
  ASSUME NEW n, ValidateDirectoryComponentPermissions(n) = "sole",
         \E g \in grants : g.want = "sole" /\ g.gid = n.gid
  PROVE  MayReplace(n) \subseteq {Root, who.real}
<1>1. ~("ow" \in n.mode /\ "sticky" \notin n.mode)
  BY DEF ValidateDirectoryComponentPermissions
<1>2. ValidateGroupWritePermissions(n) = "sole"
  BY DEF ValidateDirectoryComponentPermissions
<1>3. who.real = n.uid
  BY <1>2 DEF ValidateGroupWritePermissions, CanUserSafelyWriteFile
<1> QED
  BY <1>1, <1>3 DEF MayReplace

----------------------------------------------------------------------------
(* Each step keeps the invariant. What FileAccess says of it is known.     *)
Framed == AccessInv' /\ UNCHANGED <<who, node>> /\ grants \subseteq grants'

\* With the same configuration the scenario is the same.
LEMMA StillGiven ==
  ASSUME StartInv, Framed, cfg' = cfg
  PROVE  Given'
  BY DEF StartInv, Framed, Given

\* Reading the configuration and its includes: nothing has been collected.
LEMMA ReadingStep ==
  ASSUME StartInv, Framed, Boot \/ EnsurePermissionCheckUID \/ SafeReadFile \/ ReadDecided \/ ProcessIncludes
  PROVE  StartInv'
<1>1. step \in {"start", "boot", "read", "includes"}
  BY DEF Boot, EnsurePermissionCheckUID, SafeReadFile, ReadDecided, ProcessIncludes
<1>2. level = "global" /\ dirs = <<>> /\ component = "none"
  BY <1>1 DEF StartInv, PhaseInv, Before, After
<1>3. UNCHANGED <<cfg, level, rt, starts, dirs, component, violations>>
  BY DEF Boot, EnsurePermissionCheckUID, SafeReadFile, ReadDecided, ProcessIncludes, Continue, Refuse,
         configVars, startVars
<1>4. step' \in {"boot", "read", "includes", "parse", "merge", "done", "failed"}
  <2>1. AfterRead \in {"includes", "done", "parse"}
    BY DEF AfterRead
  <2> QED
    BY <2>1 DEF Boot, EnsurePermissionCheckUID, SafeReadFile, ReadDecided, ProcessIncludes, Continue, Refuse,
                configVars
<1>5. Given'
  BY <1>3, StillGiven
<1>6. AskInv'
  <2>1. query' = NoQuery \/ (step' = "read" /\ query'.stage = "check")
    <3>1. CASE Boot \/ EnsurePermissionCheckUID \/ ProcessIncludes
      <4>1. query = NoQuery
        BY <3>1 DEF StartInv, AskInv, Boot, EnsurePermissionCheckUID, ProcessIncludes
      <4> QED
        BY <3>1, <4>1 DEF Boot, EnsurePermissionCheckUID, ProcessIncludes, accessVars
    <3>2. CASE SafeReadFile
      BY <3>2 DEF SafeReadFile, accessVars, configVars, AskGroup, Ask
    <3>3. CASE ReadDecided
      BY <3>3 DEF ReadDecided, TakeAnswer
    <3> QED
      BY <3>1, <3>2, <3>3
  <2> QED
    BY <2>1 DEF AskInv, NoQuery
<1>7. StartTypeOK'
  <2>1. reading' \in DOMAIN node /\ included' \in Nat /\ included' <= Len(cfg.includes)
    <3>1. CASE UNCHANGED <<reading, included>>
      BY <3>1 DEF StartInv, StartTypeOK
    <3>2. CASE included # Len(cfg.includes) /\ reading' = cfg.includes[included + 1].file /\ included' = included + 1
      <4>1. included + 1 \in 1..Len(cfg.includes)
        BY <3>2, GivenFacts DEF StartInv, StartTypeOK
      <4> QED
        BY <3>2, <4>1, GivenFacts DEF StartInv, StartTypeOK
    <3> QED
      BY <3>1, <3>2 DEF Boot, EnsurePermissionCheckUID, SafeReadFile, ReadDecided, ProcessIncludes, startVars
  <2> QED
    BY <1>3, <2>1 DEF StartTypeOK, StartInv, Framed
<1> QED
  BY <1>2, <1>3, <1>4, <1>5, <1>6, <1>7
     DEF StartInv, Framed, PhaseInv, Before, CollectInv, CheckInv, SafeInv

\* The first step of the check: every directory a run needs is among those to be collected.
LEMMA RunCheckStep ==
  ASSUME StartInv, Framed, RunTOCTOUCheck
  PROVE  StartInv'
<1>1. step = "directories" /\ step' = "collecting"
      /\ UNCHANGED <<cfg, level, rt, query, reading, included, dirs, component, violations>>
  BY DEF RunTOCTOUCheck, Continue, accessVars
<1>2. level = "global" /\ dirs = <<>> /\ component = "none" /\ query = NoQuery
  BY <1>1 DEF StartInv, PhaseInv, Before, After, AskInv
<1>3. Given' /\ Starting' = Starting
  BY <1>1, StillGiven, SameDirectories
<1> DEFINE Paths == ReferencedPaths
           W == [i \in DOMAIN Paths |-> DirsOf(Paths[i])]
<1>4. W \in Seq(SUBSET DOMAIN Parent) /\ Len(Paths) \in Nat /\ Len(W) = Len(Paths) /\ DOMAIN Paths = 1..Len(Paths)
  <2>1. Len(Paths) \in Nat /\ DOMAIN Paths = 1..Len(Paths)
    BY PathsAreSequence DEF StartInv
  <2>2. \A i \in DOMAIN Paths : DirsOf(Paths[i]) \in SUBSET DOMAIN Parent
    BY DirsInTree
  <2> HIDE DEF Paths
  <2> QED
    BY <2>1, <2>2
<1>5. starts' = W \o <<{HashDir}>>
  BY DEF RunTOCTOUCheck
<1>6. \A t \in Range(Paths) : \E i \in 1..Len(Paths) : W[i] = DirsOf(t)
  BY <1>4 DEF Range
<1>7. \A i \in 1..Len(Paths) : W[i] = DirsOf(Paths[i])
  BY <1>4
<1> HIDE DEF Paths, W
<1>8. {HashDir} \in SUBSET DOMAIN Parent
  BY TreeAssumption
<1>9. /\ starts' \in Seq(SUBSET DOMAIN Parent)
      /\ DOMAIN starts' = 1..(Len(Paths) + 1)
      /\ \A i \in 1..Len(Paths) : starts'[i] = W[i]
      /\ starts'[Len(Paths) + 1] = {HashDir}
  <2> DEFINE T == SUBSET DOMAIN Parent
             h == {HashDir}
  <2>1. W \in Seq(T) /\ h \in T
    BY <1>4, <1>8
  <2>2. starts' = W \o <<h>>
    BY <1>5
  <2> HIDE DEF T, h
  <2>3. /\ W \o <<h>> \in Seq(T) /\ DOMAIN (W \o <<h>>) = 1..(Len(W) + 1)
        /\ \A i \in 1..Len(W) : (W \o <<h>>)[i] = W[i]
        /\ (W \o <<h>>)[Len(W) + 1] = h
    BY <2>1, OneMore
  <2>4. /\ starts' \in Seq(T) /\ DOMAIN starts' = 1..(Len(Paths) + 1)
        /\ \A i \in 1..Len(Paths) : starts'[i] = W[i]
        /\ starts'[Len(Paths) + 1] = h
    BY <1>4, <2>2, <2>3
  <2> QED
    BY <2>4 DEF T, h
<1>10. \A i \in DOMAIN starts' : \A x, y \in starts'[i] : x = y
  <2>1. \A i \in 1..Len(Paths) : \A x, y \in starts'[i] : x = y
    BY <1>7, <1>9, DirsInTree
  <2> QED
    BY <1>4, <1>9, <2>1
<1>11. \A d \in Starting : \E i \in DOMAIN starts' : d \in starts'[i]
  <2>1. ASSUME NEW t \in Range(Paths), NEW d \in DirsOf(t)
        PROVE  \E i \in DOMAIN starts' : d \in starts'[i]
    BY <1>4, <1>6, <1>9, <2>1
  <2>2. Len(Paths) + 1 \in DOMAIN starts' /\ HashDir \in starts'[Len(Paths) + 1]
    BY <1>4, <1>9
  <2> QED
    BY <2>1, <2>2 DEF Starting, Paths
<1>12. CollectInv'
  <2>1. Range(dirs') = {}
    BY <1>1, <1>2 DEF Range
  <2> QED
    BY <1>3, <1>10, <1>11, <2>1 DEF CollectInv
<1>13. AskInv'
  BY <1>1, <1>2 DEF AskInv, NoQuery
<1> QED
  BY <1>1, <1>2, <1>3, <1>9, <1>12, <1>13
     DEF StartInv, Framed, StartTypeOK, PhaseInv, Before, CheckInv, SafeInv

\* The next way to the root is begun.
LEMMA BeginWay ==
  ASSUME StartTypeOK, CollectInv, step = "collecting", component = "none", starts # <<>>,
         component' \in (IF Head(starts) = {} THEN {"none"} ELSE Head(starts)), starts' = Tail(starts),
         UNCHANGED <<dirs, step>>, Starting' = Starting
  PROVE  CollectInv' /\ starts' \in Seq(SUBSET DOMAIN Parent) /\ component' \in {"none"} \cup DOMAIN Parent
<1> DEFINE T == SUBSET DOMAIN Parent
<1>1. starts \in Seq(T)
  BY DEF StartTypeOK
<1> HIDE DEF T
<1>2. /\ Tail(starts) \in Seq(T) /\ Head(starts) \in T
      /\ \A x \in Range(starts) : x = Head(starts) \/ x \in Range(Tail(starts))
  BY <1>1, RangeTail
<1>3. Head(starts) = starts[1] /\ 1 \in DOMAIN starts
      /\ \A i \in DOMAIN Tail(starts) : i + 1 \in DOMAIN starts /\ Tail(starts)[i] = starts[i + 1]
  BY <1>1
<1>4. \A i \in DOMAIN starts' : \A x, y \in starts'[i] : x = y
  BY <1>3 DEF CollectInv
<1>5. \A x, y \in Head(starts) : x = y
  BY <1>3 DEF CollectInv
<1>6. \A d \in Head(starts) : d = component'
  BY <1>5
<1>7. \A d \in Range(dirs) : Parent[d] \in Range(dirs)
  <2>1. \A d \in Range(dirs) : d \in DOMAIN Parent
    BY DEF StartTypeOK, Range
  <2>2. \A d \in Range(dirs) : Parent[d] # "none"
    BY <2>1, TreeAssumption
  <2> QED
    BY <2>2 DEF CollectInv
<1>8. ASSUME NEW d \in Starting
      PROVE  d \in Range(dirs) \/ d = component' \/ \E i \in DOMAIN starts' : d \in starts'[i]
  <2>0. Starting \subseteq DOMAIN Parent
    BY DirsInTree, TreeAssumption DEF Starting
  <2>1. d # component
    BY <2>0, TreeAssumption
  <2>2. CASE d \in Range(dirs)
    BY <2>2
  <2>3. CASE \E i \in DOMAIN starts : d \in starts[i]
    <3>1. PICK i \in DOMAIN starts : d \in starts[i]
      BY <2>3
    <3>2. starts[i] \in Range(starts)
      BY DEF Range
    <3>3. CASE starts[i] = Head(starts)
      BY <1>6, <3>1, <3>3
    <3>4. CASE starts[i] \in Range(Tail(starts))
      BY <3>1, <3>4 DEF Range
    <3> QED
      BY <1>2, <3>2, <3>3, <3>4
  <2> QED
    BY <2>1, <2>2, <2>3 DEF CollectInv
<1>9. component' \in {"none"} \cup DOMAIN Parent
  BY <1>2 DEF T
<1>10. starts' \in Seq(SUBSET DOMAIN Parent)
  BY <1>2 DEF T
<1> QED
  BY <1>4, <1>7, <1>8, <1>9, <1>10 DEF CollectInv

\* A directory is added, or the way ends at one that is already there.
LEMMA AddToWay ==
  ASSUME StartTypeOK, CollectInv, step = "collecting", component # "none",
         IF component \in Range(dirs) THEN component' = "none" /\ UNCHANGED dirs
         ELSE dirs' = Append(dirs, component) /\ component' = Above(component),
         UNCHANGED <<starts, step>>, Starting' = Starting
  PROVE  CollectInv' /\ dirs' \in Seq(DOMAIN Parent) /\ component' \in {"none"} \cup DOMAIN Parent
<1>1. CASE component \in Range(dirs)
  BY <1>1 DEF CollectInv, StartTypeOK
<1>2. CASE component \notin Range(dirs)
  <2>1. component \in DOMAIN Parent
    BY DEF StartTypeOK
  <2>2. Append(dirs, component) \in Seq(DOMAIN Parent) /\ Range(Append(dirs, component)) = Range(dirs) \cup {component}
    BY <2>1, RangeAppend DEF StartTypeOK
  <2>3. Above(component) \in {"none"} \cup DOMAIN Parent /\ (Above(component) = Parent[component] \/ Parent[component] = component)
    BY <2>1, AboveInTree
  <2>4. dirs' = Append(dirs, component) /\ component' = Above(component)
    BY <1>2
  <2>5. \A d \in Range(dirs') : Parent[d] \in Range(dirs') \/ Parent[d] = component'
    BY <2>2, <2>3, <2>4 DEF CollectInv
  <2>6. \A d \in Starting' : d \in Range(dirs') \/ d = component' \/ \E i \in DOMAIN starts' : d \in starts'[i]
    BY <2>2, <2>4 DEF CollectInv
  <2>7. \A i \in DOMAIN starts' : \A x, y \in starts'[i] : x = y
    BY DEF CollectInv
  <2> QED
    BY <2>2, <2>3, <2>4, <2>5, <2>6, <2>7 DEF CollectInv
<1> QED
  BY <1>1, <1>2

\* When nothing is left to add, every directory in use is there.
LEMMA AllCollected ==
  ASSUME StartTypeOK, CollectInv, step = "collecting", component = "none", starts = <<>>
  PROVE  DirectoriesInUse \subseteq Range(dirs)
<1>1. Range(dirs) \in SUBSET DOMAIN Parent
  BY DEF StartTypeOK, Range
<1>2. \A y \in Range(dirs) : Parent[y] \in Range(dirs)
  <2>1. \A d \in Range(dirs) : Parent[d] # "none"
    BY <1>1, TreeAssumption
  <2> QED
    BY <2>1 DEF CollectInv
<1>3. Starting \subseteq Range(dirs)
  <2>1. \A d \in Starting : d # "none"
    BY DirsInTree, TreeAssumption DEF Starting
  <2>2. DOMAIN starts = {}
    OBVIOUS
  <2> QED
    BY <2>1, <2>2 DEF CollectInv
<1>4. \A d \in Starting : WayToRoot(d) \subseteq Range(dirs)
  BY <1>1, <1>2, <1>3, WayWithin
<1>5. DirectoriesInUse = UNION {WayToRoot(d) : d \in Starting}
  BY DEF DirectoriesInUse, Starting
<1> QED
  BY <1>4, <1>5

\* Collecting.
LEMMA CollectStep ==
  ASSUME StartInv, Framed, CollectTOCTOUCheckDirs
  PROVE  StartInv'
<1>1. step = "collecting" /\ UNCHANGED <<cfg, level, rt, query, reading, included, violations>>
  BY DEF CollectTOCTOUCheckDirs, Continue, configVars, accessVars
<1>2. level = "global" /\ query = NoQuery
  BY <1>1 DEF StartInv, PhaseInv, Before, After, AskInv
<1>3. Given' /\ Starting' = Starting /\ DirectoriesInUse' = DirectoriesInUse
  BY <1>1, StillGiven, SameDirectories
<1>4. StartTypeOK /\ CollectInv
  BY DEF StartInv
<1>5. AskInv'
  BY <1>1, <1>2 DEF AskInv, NoQuery
<1>6. CASE component = "none" /\ starts = <<>> /\ Continue("checking") /\ UNCHANGED <<starts, dirs, component>>
  <2>1. step' = "checking"
    BY <1>6 DEF Continue
  <2>2. CheckInv'
    BY <1>1, <1>3, <1>4, <1>6, AllCollected DEF CheckInv
  <2> QED
    BY <1>1, <1>2, <1>3, <1>5, <1>6, <2>1, <2>2
       DEF StartInv, Framed, StartTypeOK, PhaseInv, Before, CollectInv, SafeInv
<1>7. CASE step' = step /\ CollectInv' /\ StartTypeOK'
  BY <1>1, <1>2, <1>3, <1>5, <1>7 DEF StartInv, Framed, PhaseInv, Before, CheckInv, SafeInv
<1>8. CASE component = "none" /\ starts # <<>>
  <2>1. /\ component' \in (IF Head(starts) = {} THEN {"none"} ELSE Head(starts))
        /\ starts' = Tail(starts) /\ UNCHANGED <<step, dirs>>
    BY <1>8 DEF CollectTOCTOUCheckDirs, configVars
  <2>2. CollectInv' /\ starts' \in Seq(SUBSET DOMAIN Parent) /\ component' \in {"none"} \cup DOMAIN Parent
    BY <1>1, <1>3, <1>4, <1>8, <2>1, BeginWay
  <2>3. StartTypeOK'
    BY <1>1, <1>4, <2>1, <2>2 DEF StartTypeOK, Framed
  <2> QED
    BY <1>7, <2>1, <2>2, <2>3
<1>9. CASE component # "none"
  <2>1. /\ IF component \in Range(dirs) THEN component' = "none" /\ UNCHANGED dirs
           ELSE dirs' = Append(dirs, component) /\ component' = Above(component)
        /\ UNCHANGED <<step, starts>>
    BY <1>9 DEF CollectTOCTOUCheckDirs, configVars
  <2>2. CollectInv' /\ dirs' \in Seq(DOMAIN Parent) /\ component' \in {"none"} \cup DOMAIN Parent
    BY <1>1, <1>3, <1>4, <1>9, <2>1, AddToWay
  <2>3. StartTypeOK'
    BY <1>1, <1>4, <2>1, <2>2 DEF StartTypeOK, Framed
  <2> QED
    BY <1>7, <2>1, <2>2, <2>3
<1> QED
  BY <1>6, <1>8, <1>9 DEF CollectTOCTOUCheckDirs

\* While directories are checked only what is being checked changes.
LEMMA CheckingFrame ==
  ASSUME StartInv, Framed, step = "checking", UNCHANGED <<cfg, level, rt, step>>
  PROVE  /\ level = "global" /\ Given' /\ DirectoriesInUse' = DirectoriesInUse
         /\ PhaseInv' /\ CollectInv' /\ SafeInv'
         /\ \A d : Safe(d) => Safe(d)'
<1>1. level = "global"
  BY DEF StartInv, PhaseInv, After
<1>2. Given' /\ DirectoriesInUse' = DirectoriesInUse
  BY StillGiven, SameDirectories
<1>3. \A d : Safe(d) => Safe(d)'
  BY StaysSafe DEF Framed
<1> QED
  BY <1>1, <1>2, <1>3 DEF PhaseInv, CollectInv, SafeInv, Before

\* The next directory: one that is not a directory cannot be written to.
LEMMA NextDirectoryStep ==
  ASSUME StartInv, Framed, ValidateDirectoryPermissions
  PROVE  StartInv'
<1>1. /\ step = "checking" /\ component = "none" /\ dirs # <<>> /\ dirs' = Tail(dirs)
      /\ UNCHANGED <<cfg, level, rt, step, query, reading, included, starts>>
  BY DEF ValidateDirectoryPermissions, configVars, accessVars
<1>2. Given' /\ DirectoriesInUse' = DirectoriesInUse /\ PhaseInv' /\ CollectInv' /\ SafeInv' /\ \A d : Safe(d) => Safe(d)'
  BY <1>1, CheckingFrame
<1>3. query = NoQuery
  BY <1>1 DEF StartInv, AskInv
<1>4. /\ Tail(dirs) \in Seq(DOMAIN Parent) /\ Head(dirs) \in DOMAIN Parent
      /\ \A x \in Range(dirs) : x = Head(dirs) \/ x \in Range(Tail(dirs))
  BY <1>1, RangeTail DEF StartInv, StartTypeOK
<1>5. \/ node[Head(dirs)].kind = "dir" /\ component' = Head(dirs) /\ UNCHANGED violations
      \/ node[Head(dirs)].kind # "dir" /\ component' = "none" /\ violations \subseteq violations'
  BY <1>1 DEF ValidateDirectoryPermissions
<1>6. StartTypeOK'
  BY <1>1, <1>4, <1>5 DEF StartInv, StartTypeOK, Framed
<1>7. AskInv'
  BY <1>1, <1>3 DEF AskInv, NoQuery
<1>8. ASSUME NEW d \in DirectoriesInUse
      PROVE  d \in Range(dirs') \/ d = component' \/ Safe(d)' \/ violations' # {}
  <2>1. d \in DOMAIN Parent
    BY InUseInTree
  <2>2. d # component
    BY <1>1, <2>1, TreeAssumption
  <2>3. d \in Range(dirs) \/ Safe(d) \/ violations # {}
    BY <1>1, <2>2 DEF StartInv, CheckInv
  <2>4. CASE d \in Range(dirs)
    <3>1. CASE d \in Range(Tail(dirs))
      BY <1>1, <3>1
    <3>2. CASE d = Head(dirs)
      BY <1>2, <1>5, <3>2 DEF Safe
    <3> QED
      BY <1>4, <2>4, <3>1, <3>2
  <2>5. CASE Safe(d)
    BY <1>2, <2>5
  <2>6. CASE violations # {}
    BY <1>5, <2>6
  <2> QED
    BY <2>3, <2>4, <2>5, <2>6
<1>9. CheckInv'
  BY <1>2, <1>8 DEF CheckInv
<1> QED
  BY <1>2, <1>6, <1>7, <1>9 DEF StartInv, Framed

\* A directory that passes is safe; one that does not is a violation.
LEMMA ComponentStep ==
  ASSUME StartInv, Framed, step = "checking", component # "none",
         UNCHANGED <<cfg, level, rt, step, reading, included, starts, dirs>>, query' = NoQuery,
         (ComponentPassed /\ Safe(component)) \/ ComponentFailed
  PROVE  StartInv'
<1>1. Given' /\ DirectoriesInUse' = DirectoriesInUse /\ PhaseInv' /\ CollectInv' /\ SafeInv' /\ \A d : Safe(d) => Safe(d)'
  BY CheckingFrame
<1>2. component \in DOMAIN Parent
  BY DEF StartInv, StartTypeOK
<1>3. component' \in {"none"} \cup DOMAIN Parent
  BY <1>2, AboveInTree DEF ComponentPassed, ComponentFailed
<1>4. StartTypeOK'
  BY <1>3 DEF StartInv, StartTypeOK, Framed
<1>5. AskInv'
  BY DEF AskInv, NoQuery
<1>6. ASSUME NEW d \in DirectoriesInUse
      PROVE  d \in Range(dirs') \/ d = component' \/ Safe(d)' \/ violations' # {}
  <2>1. d \in Range(dirs) \/ d = component \/ Safe(d) \/ violations # {}
    BY DEF StartInv, CheckInv
  <2>2. violations \subseteq violations'
    BY DEF ComponentPassed, ComponentFailed
  <2>3. d = component => Safe(d) \/ violations' # {}
    BY DEF ComponentPassed, ComponentFailed
  <2> QED
    BY <1>1, <2>1, <2>2, <2>3
<1>7. CheckInv'
  BY <1>1, <1>6 DEF CheckInv
<1> QED
  BY <1>1, <1>4, <1>5, <1>7 DEF StartInv, Framed

\* Steps that change neither what is checked nor what is left to check.
LEMMA WaitingStep ==
  ASSUME StartInv, Framed, UNCHANGED <<configVars, startVars>>, AskInv'
  PROVE  StartInv'
<1>1. UNCHANGED <<cfg, level, rt, step, reading, included, starts, dirs, component, violations>>
  BY DEF configVars, startVars
<1>2. Given' /\ Starting' = Starting /\ DirectoriesInUse' = DirectoriesInUse
  BY <1>1, StillGiven, SameDirectories
<1>3. \A d : Safe(d) => Safe(d)'
  BY StaysSafe DEF Framed
<1>4. StartTypeOK' /\ PhaseInv'
  BY <1>1 DEF StartInv, StartTypeOK, PhaseInv, Framed
<1>5. CollectInv'
  BY <1>1, <1>2 DEF StartInv, CollectInv
<1>6. CheckInv'
  BY <1>1, <1>2, <1>3 DEF StartInv, CheckInv
<1>7. SafeInv'
  BY <1>1, <1>2, <1>3 DEF StartInv, SafeInv
<1> QED
  BY <1>2, <1>4, <1>5, <1>6, <1>7 DEF StartInv, Framed

\* The directory that is being checked (validateDirectoryHierarchy).
LEMMA HierarchyStep ==
  ASSUME StartInv, Framed, ValidateDirectoryHierarchy
  PROVE  StartInv'
<1> DEFINE n == node[component]
           allowed == IF n.kind # "dir" THEN "no" ELSE ValidateDirectoryComponentPermissions(n)
<1>1. /\ step = "checking" /\ component # "none" /\ query = NoQuery
      /\ UNCHANGED <<cfg, level, rt, step, reading, included, starts, dirs>> /\ UNCHANGED configVars
  BY DEF ValidateDirectoryHierarchy, configVars
<1>2. CASE allowed = "yes" /\ ComponentPassed /\ UNCHANGED accessVars
  <2>1. Safe(component)
    BY <1>2, PassedIsSafe DEF Safe
  <2> QED
    BY <1>1, <1>2, <2>1, ComponentStep DEF accessVars
<1>3. CASE allowed = "no" /\ ComponentFailed /\ UNCHANGED accessVars
  BY <1>1, <1>3, ComponentStep DEF accessVars
<1>4. CASE allowed = "sole" /\ AskGroup("dirs", who.real, n.gid, "sole") /\ UNCHANGED <<component, violations>>
  <2>1. n.kind = "dir" /\ ValidateDirectoryComponentPermissions(n) = "sole"
    BY <1>4
  <2>2. query'.stage = "check" /\ query'.want = "sole" /\ query'.gid = n.gid
    BY <1>4 DEF AskGroup, Ask
  <2>3. ValidateDirectoryComponentPermissions(n)' = ValidateDirectoryComponentPermissions(n)
    BY <1>4 DEF Framed, ValidateDirectoryComponentPermissions, ValidateGroupWritePermissions, OwnerAcceptable
  <2>4. AskInv'
    BY <1>1, <1>4, <2>1, <2>2, <2>3 DEF AskInv, Framed
  <2> QED
    BY <1>1, <1>4, <2>4, WaitingStep DEF startVars
<1> QED
  BY <1>2, <1>3, <1>4 DEF ValidateDirectoryHierarchy

\* The answer about the group of the directory.
LEMMA DecidedStep ==
  ASSUME StartInv, Framed, ComponentDecided
  PROVE  StartInv'
<1>1. /\ step = "checking" /\ query.stage \in {"granted", "denied"} /\ query' = NoQuery
      /\ UNCHANGED <<cfg, level, rt, step, reading, included, starts, dirs>>
  BY DEF ComponentDecided, TakeAnswer, configVars
<1>2. query # NoQuery
  BY <1>1 DEF NoQuery
<1>3. /\ component # "none" /\ node[component].kind = "dir"
      /\ ValidateDirectoryComponentPermissions(node[component]) = "sole"
      /\ query.want = "sole" /\ query.gid = node[component].gid
  BY <1>1, <1>2 DEF StartInv, AskInv
<1>4. CASE query.stage = "granted"
  <2>1. \E g \in grants : g.want = "sole" /\ g.gid = node[component].gid
    BY <1>3, <1>4 DEF StartInv, AskInv
  <2>2. Safe(component)
    BY <1>3, <2>1, SoleIsSafe DEF Safe
  <2>3. ComponentPassed
    BY <1>4 DEF ComponentDecided
  <2> QED
    BY <1>1, <1>3, <2>2, <2>3, ComponentStep
<1>5. CASE query.stage # "granted"
  <2>1. ComponentFailed
    BY <1>5 DEF ComponentDecided
  <2> QED
    BY <1>1, <1>3, <2>1, ComponentStep
<1> QED
  BY <1>4, <1>5

\* The check ends: the groups are entered only if every directory in use was found safe.
LEMMA DoneStep ==
  ASSUME StartInv, Framed, TOCTOUCheckDone
  PROVE  StartInv'
<1>1. /\ step = "checking" /\ component = "none" /\ dirs = <<>>
      /\ UNCHANGED <<cfg, level, rt, query, reading, included, starts, dirs, component, violations>>
      /\ \/ violations = {} /\ step' = "group"
         \/ violations # {} /\ step' = "failed"
  BY DEF TOCTOUCheckDone, Continue, Refuse, accessVars, startVars
<1>2. level = "global" /\ query = NoQuery
  BY <1>1 DEF StartInv, PhaseInv, After, AskInv
<1>3. Given' /\ DirectoriesInUse' = DirectoriesInUse
  BY <1>1, StillGiven, SameDirectories
<1>4. ASSUME violations = {}, NEW d \in DirectoriesInUse
      PROVE  Safe(d)'
  <2>1. d # "none"
    BY InUseInTree, TreeAssumption
  <2>2. Range(dirs) = {}
    BY <1>1 DEF Range
  <2>3. Safe(d)
    BY <1>1, <1>4, <2>1, <2>2 DEF StartInv, CheckInv
  <2> QED
    BY <2>3, StaysSafe DEF Framed
<1>5. SafeInv'
  BY <1>1, <1>2, <1>3, <1>4 DEF SafeInv
<1>6. AskInv'
  BY <1>1, <1>2 DEF AskInv, NoQuery
<1> QED
  BY <1>1, <1>2, <1>3, <1>5, <1>6
     DEF StartInv, Framed, StartTypeOK, PhaseInv, Before, CollectInv, CheckInv

\* A decision is recorded with the group it is about (GetGroupMembers).
LEMMA AnswerKept ==
  ASSUME query \in Asked, NEW found, NEW at, Answer(query, found, at)
  PROVE  /\ query' # NoQuery /\ query'.want = query.want /\ query'.gid = query.gid
         /\ query'.stage = "granted" => \E g \in grants' : g.want = query.want /\ g.gid = query.gid
<1>1. query' \in Asked /\ query'.want = query.want /\ query'.gid = query.gid
      /\ query'.stage = (IF Satisfied(query, found) THEN "granted" ELSE "denied")
  BY DEF Answer, Asked
<1>2. query' # NoQuery
  BY <1>1 DEF NoQuery
<1>3. ASSUME Satisfied(query, found)
      PROVE  \E g \in grants' : g.want = query.want /\ g.gid = query.gid
  <2>1. Grant(query, found, at) \in grants'
    BY <1>3 DEF Answer
  <2>2. Grant(query, found, at).want = query.want /\ Grant(query, found, at).gid = query.gid
    BY DEF Grant
  <2> QED
    BY <2>1, <2>2
<1> QED
  BY <1>1, <1>2, <1>3

\* A question stays the question it is while it is being answered.
LEMMA QuestionStep ==
  ASSUME StartInv, Framed, UNCHANGED <<configVars, startVars>>,
         CacheHit \/ EnumerateGroupMembers \/ StoreMembers
  PROVE  StartInv'
<1>1. UNCHANGED <<step, component>>
  BY DEF configVars, startVars
<1>2. query \in Asked /\ query # NoQuery
  <2>1. query.stage # "none"
    BY DEF CacheHit, EnumerateGroupMembers, StoreMembers
  <2> QED
    BY <2>1, AskedQuery DEF StartInv, AccessInv, NoQuery
<1>3. /\ query'.want = query.want /\ query'.gid = query.gid
      /\ query'.stage = "granted" => \E g \in grants' : g.want = query.want /\ g.gid = query.gid
  <2>1. CASE CacheHit
    BY <1>2, <2>1, AnswerKept DEF CacheHit
  <2>2. CASE StoreMembers
    BY <1>2, <2>2, AnswerKept DEF StoreMembers
  <2>3. CASE EnumerateGroupMembers
    BY <1>2, <2>3 DEF EnumerateGroupMembers, Asked
  <2> QED
    BY <2>1, <2>2, <2>3
<1>4. ValidateDirectoryComponentPermissions(node[component])' = ValidateDirectoryComponentPermissions(node[component])
  BY <1>1 DEF Framed, ValidateDirectoryComponentPermissions, ValidateGroupWritePermissions, OwnerAcceptable
<1>5. AskInv'
  BY <1>1, <1>2, <1>3, <1>4 DEF StartInv, AskInv, Framed
<1> QED
  BY <1>5, WaitingStep

\* The clock and the user database.
LEMMA ElsewhereStep ==
  ASSUME StartInv, Framed, UNCHANGED <<configVars, startVars>>,
         Tick \/ ChangeMembership \/ UNCHANGED accessVars
  PROVE  StartInv'
<1>1. UNCHANGED <<step, component, grants>>
  BY DEF configVars, startVars, Tick, ChangeMembership, accessVars
<1>2. query' = query \/ (query \in Asked /\ query' = [query EXCEPT !.ticks = @ + 1])
  <2>1. CASE Tick
    <3>1. CASE query.stage = "store"
      BY <2>1, <3>1, AskedQuery DEF Tick, StartInv, AccessInv
    <3>2. CASE query.stage # "store"
      BY <2>1, <3>2 DEF Tick
    <3> QED
      BY <3>1, <3>2
  <2> QED
    BY <2>1 DEF ChangeMembership, accessVars
<1>3. query = NoQuery => query' = NoQuery
  <2>1. query = NoQuery => query \notin Asked
    BY DEF NoQuery, Asked
  <2> QED
    BY <1>2, <2>1
<1>4. query'.stage = query.stage /\ query'.want = query.want /\ query'.gid = query.gid
  BY <1>2 DEF Asked
<1>5. ValidateDirectoryComponentPermissions(node[component])' = ValidateDirectoryComponentPermissions(node[component])
  BY <1>1 DEF Framed, ValidateDirectoryComponentPermissions, ValidateGroupWritePermissions, OwnerAcceptable
<1>6. AskInv'
  BY <1>1, <1>3, <1>4, <1>5 DEF StartInv, AskInv, Framed
<1> QED
  BY <1>6, WaitingStep

\* The steps of the configuration: what was found safe is still what is in use.
LEMMA ExpandStep ==
  ASSUME StartInv, Framed, Expand
  PROVE  StartInv'
<1>1. ConfigStepped
  BY ConfigStep DEF Expand, StartInv
<1>2. UNCHANGED <<query, reading, included, starts, dirs, component, violations>>
  BY DEF Expand, accessVars, startVars
<1>3. Given' /\ cfg' = cfg
  BY <1>1, StillGiven DEF ConfigStepped
<1>4. StartTypeOK'
  BY <1>1, <1>2, <1>3 DEF StartInv, StartTypeOK, ConfigStepped, Framed
<1>5. PhaseInv'
  <2>1. CASE level' = "global"
    <3>1. level = "global" /\ step # "group" /\ step \in Before
      BY <1>1, <2>1 DEF ConfigStepped, StartInv, PhaseInv, Before
    <3> QED
      BY <1>1, <1>2, <2>1, <3>1 DEF ConfigStepped, StartInv, PhaseInv, Before
  <2>2. CASE level' # "global"
    BY <1>1, <2>2 DEF ConfigStepped, PhaseInv
  <2> QED
    BY <2>1, <2>2
<1>6. query = NoQuery
  BY <1>1 DEF ConfigStepped, StartInv, AskInv
<1>7. AskInv'
  BY <1>2, <1>6 DEF AskInv, NoQuery
<1>8. step' \notin {"collecting", "checking", "group"}
  BY <1>1 DEF ConfigStepped, After
<1>9. SafeInv'
  <2>1. CASE level' = "global"
    BY <1>8, <2>1 DEF SafeInv
  <2>2. CASE level' # "global"
    <3>1. (level # "global" \/ step = "group") /\ rt'["global"] = rt["global"]
      BY <1>1, <2>2 DEF ConfigStepped
    <3>2. DirectoriesInUse' = DirectoriesInUse
      BY <1>3, <3>1, SameDirectories
    <3>3. \A d : Safe(d) => Safe(d)'
      BY StaysSafe DEF Framed
    <3> QED
      BY <3>1, <3>2, <3>3 DEF StartInv, SafeInv
  <2> QED
    BY <2>1, <2>2
<1> QED
  BY <1>3, <1>4, <1>5, <1>7, <1>8, <1>9 DEF StartInv, Framed, CollectInv, CheckInv

----------------------------------------------------------------------------
\* A run starts with nothing read, asked or collected.
LEMMA InitStart == Init => StartInv
<1> SUFFICES ASSUME Init PROVE StartInv
  OBVIOUS
<1>1. PICK s \in Scenarios : cfg = s.cfg /\ who = s.who /\ members = s.members /\ node = s.node
  BY DEF Init
<1>2. Given
  BY <1>1 DEF Given
<1>3. AccessInv
  BY <1>1, ScenarioAssumption, InitAccess DEF Init
<1>4. level = "global" /\ step = "start" /\ DOMAIN rt = {"global", "group", "command"}
  BY DEF Init, ConfigInit, Levels, Range
<1>5. StartTypeOK
  BY <1>2, <1>4, GivenFacts DEF StartTypeOK, Init
<1>6. PhaseInv /\ AskInv
  BY <1>4 DEF PhaseInv, AskInv, Init, AccessInit, NoQuery, Before
<1> QED
  BY <1>2, <1>3, <1>4, <1>5, <1>6 DEF StartInv, CollectInv, CheckInv, SafeInv

\* No step breaks the invariant.
LEMMA StartStep == StartInv /\ [Next]_vars => StartInv'
<1> SUFFICES ASSUME StartInv, [Next]_vars PROVE StartInv'
  OBVIOUS
<1>1. Framed
  <2>1. [AccessNext]_accessVars
    BY AccessRefined
  <2> QED
    BY <2>1, AccessStep, AccessFrame DEF StartInv, Framed
<1>2. CASE Boot \/ EnsurePermissionCheckUID \/ SafeReadFile \/ ReadDecided \/ ProcessIncludes
  BY <1>1, <1>2, ReadingStep
<1>3. CASE RunTOCTOUCheck \/ CollectTOCTOUCheckDirs
  BY <1>1, <1>3, RunCheckStep, CollectStep
<1>4. CASE ValidateDirectoryPermissions \/ ValidateDirectoryHierarchy \/ ComponentDecided \/ TOCTOUCheckDone
  BY <1>1, <1>4, NextDirectoryStep, HierarchyStep, DecidedStep, DoneStep
<1>5. CASE Access
  BY <1>1, <1>5, QuestionStep DEF Access
<1>6. CASE Elsewhere
  BY <1>1, <1>6, ElsewhereStep DEF Elsewhere
<1>7. CASE Expand
  BY <1>1, <1>7, ExpandStep
<1>8. CASE UNCHANGED vars
  BY <1>1, <1>8, ElsewhereStep DEF vars
<1> QED
  BY <1>2, <1>3, <1>4, <1>5, <1>6, <1>7, <1>8 DEF Next

\* When the groups of a run are entered, nobody but root and the user may replace a file the
\* configuration names or the record of its hash, for any tree of directories, any configuration and
\* any expansion of its texts (runTOCTOUCheck, CollectTOCTOUCheckDirs, validateDirectoryHierarchy).
THEOREM NobodyElseTheorem == Spec => []NobodyElseReplaces
<1>1. StartInv => NobodyElseReplaces
  BY DEF StartInv, SafeInv, Safe, NobodyElseReplaces
<1> QED
  BY InitStart, StartStep, <1>1, PTL DEF Spec

\* The start of a run is a system of callers of the group membership: it implements AccessSpec
\* (SafeReadFile, validateGroupWritePermissions).
THEOREM StartRefinesAccess == Spec => AccessSpec
<1>1. Init => AccessInit /\ members \in Databases
  BY ScenarioAssumption DEF Init
<1>2. StartInv /\ [Next]_vars => [AccessNext]_accessVars
  BY AccessRefined
<1> QED
  BY InitStart, StartStep, <1>1, <1>2, PTL DEF Spec, AccessSpec

\* Hence a start, too, decides on recent memberships only (GetGroupMembers).
THEOREM StartAccessTheorem == Spec => []AccessByRecentMembership
  BY StartRefinesAccess, AccessTheorem, PTL
=============================================================================
