----------------------- MODULE AnalysisRecordsProofs -----------------------
(* Theorems about AnalysisRecords, for any requests, graphs and bounds. *)
EXTENDS AnalysisRecords, FiniteSetTheorems, WellFoundedInduction, TLAPS

-----------------------------------------------------------------------------
(* The inductive invariant *)

Rests == Configs \cup Users \cup BOOLEAN \cup {None, "live", "cancelled"} \cup GraphEdits

Sessions ==
  [op   : {"none", "snapshot", "revert", "comment", "resolve", "uncomment", "share", "revoke",
           "view", "edit", "delete"},
   pc   : {"idle", "number", "write", "count", "counted", "served", "notfound", "cancel",
           "remove", "done", "failed", "refused", "row", "enqueue", "queued", "compare"},
   conf : Configs \cup {None},
   num  : Nat,
   key  : Requests \cup {None, "discovered"},
   rest : Rests]

Types ==
  /\ TypeOK
  /\ req \in [Requests -> Sessions] /\ creator \in Sessions /\ worker \in Sessions
  /\ \A g \in graphs : g.id \in Requests \cup {"discovered"}

\* Before the row there is nothing, and nobody asks for it.
Life ==
  /\ row = "absent" <=> creator.pc = "row"
  /\ row = "absent" => /\ audit = {} /\ worker.pc = "idle"
                       /\ \A r \in Requests : req[r].pc = "idle"
  /\ \A r \in Requests : /\ req[r].pc = "idle" => req[r].op = "none"
                         /\ At(r, "delete", "remove") => Bare("delete") \in audit
  /\ NothingOrphaned

\* The number is that of a version, or the one after the last.
Fair(n) == n \in 1..(Cardinality(versions) + 1)

\* So is every number that was read, as long as it can be used.
Numbers ==
  /\ NumbersContiguous
  /\ There => /\ creator.pc = "write" => Fair(creator.num)
              /\ worker.pc = "write" => Fair(worker.num)
              /\ \A r \in Requests :
                   At(r, "snapshot", "write") \/ At(r, "revert", "write") => Fair(req[r].num)

\* Until there is a version the configuration is the one that was loaded.
Past ==
  /\ ConfigInHistory
  /\ creator.pc \in {"number", "write"} => creator.conf \in Configs
  /\ worker.pc \in {"compare", "write"} => worker.conf \in Configs
  /\ \A r \in Requests : req[r].pc \in {"number", "write"} =>
       /\ req[r].op = "snapshot" => req[r].conf \in Configs
       /\ req[r].op = "revert" => req[r].rest \in Configs
  /\ There /\ versions = {} =>
       /\ creator.pc \in {"number", "write"} => creator.conf = config
       /\ \A r \in Requests : req[r].pc \in {"number", "write"} =>
            req[r].op # "revert" /\ (req[r].op = "snapshot" => req[r].conf = config)

\* The log tells what it must, also when the creation's entry is next.
Trail ==
  /\ AuditTrail
  /\ creator.pc = "enqueue" /\ There =>
       \E v \in versions : v.kind = "initial" /\ v.config = creator.conf

\* A comment that is about to be written is somebody's, and a reply to a comment
\* or to none.
Drafts ==
  \A r \in Requests : At(r, "comment", "write") =>
    req[r].rest \in Users /\ req[r].key \in Requests \cup {None}

IInv == Types /\ Life /\ Numbers /\ Past /\ Trail /\ Drafts

-----------------------------------------------------------------------------

LEMMA InitInv == Init => IInv
<1> SUFFICES ASSUME Init PROVE IInv
  OBVIOUS
<1>1. Idle \in Sessions /\ creator \in Sessions
  BY DEF Init, Idle, Sessions, Rests
<1>2. IsFiniteSet({}) /\ Cardinality({}) = 0
  BY FS_EmptySet
<1>3. Types
  <2>1. \A x \in {creator, worker} \cup {req[r] : r \in Requests} : x \in Sessions
    BY <1>1 DEF Init
  <2> QED
    BY <1>1, <1>2, <2>1, AnalysisRecordsAssumption DEF Init, Types, TypeOK, Sessions, Rests, Configs, Idle
<1>4. Life
  BY DEF Init, Life, NothingOrphaned, Idle, At
<1>5. NumbersContiguous
  BY <1>2 DEF Init, NumbersContiguous
<1>6. Numbers /\ Past /\ Trail /\ Drafts
  BY <1>5 DEF Init, Numbers, Past, ConfigInHistory, Trail, AuditTrail, Drafts, There, Idle, At
<1> QED
  BY <1>3, <1>4, <1>6 DEF IInv

-----------------------------------------------------------------------------
(* Steps of a session *)

\* A session that starts, or goes on, stays one, and the others are left alone.
LEMMA SessionKept ==
  ASSUME Types, NEW r \in Requests, NEW s \in Sessions,
         req' = [req EXCEPT ![r] = s]
  PROVE  /\ req' \in [Requests -> Sessions] /\ req'[r] = s
         /\ \A q \in Requests \ {r} : req'[q] = req[q]
BY DEF Types

LEMMA GotoKept ==
  ASSUME Types, NEW r \in Requests, NEW pc, Goto(r, pc),
         pc \in {"done", "failed", "counted", "served", "notfound", "remove"}
  PROVE  /\ req' \in [Requests -> Sessions]
         /\ req'[r] = [req[r] EXCEPT !.pc = pc]
         /\ \A q \in Requests \ {r} : req'[q] = req[q]
<1>1. [req[r] EXCEPT !.pc = pc] \in Sessions
  BY DEF Types, Sessions
<1> QED
  BY <1>1, SessionKept DEF Goto

\* The next number is the one after the last.
LEMMA NextIsFair ==
  ASSUME Types, NumbersContiguous
  PROVE  Cardinality(versions) \in Nat /\ NextNumber = Cardinality(versions) + 1
                                       /\ Fair(NextNumber)
<1> DEFINE n == Cardinality(versions)
<1>1. n \in Nat /\ (n = 0 <=> versions = {})
  BY FS_CardinalityType, FS_EmptySet DEF Types, TypeOK
<1>2. CASE versions = {}
  BY <1>1, <1>2 DEF NextNumber, Fair
<1>3. CASE versions # {}
  <2>1. Max(1..n) = n
    BY <1>1, <1>3 DEF Max
  <2>2. NextNumber = n + 1
    BY <1>3, <2>1 DEF NextNumber, NumbersContiguous
  <2> QED
    BY <1>1, <2>2 DEF Fair
<1> QED
  BY <1>2, <1>3

\* A fair number that fits is the next one, and makes the versions one more.
LEMMA FitsNext ==
  ASSUME Types, NumbersContiguous, NEW n, Fair(n), Fits(n),
         NEW v, v.number = n, versions' = versions \cup {v}
  PROVE  /\ n = Cardinality(versions) + 1 /\ n \in Nat \ {0}
         /\ IsFiniteSet(versions') /\ Cardinality(versions') = Cardinality(versions) + 1
         /\ NumbersContiguous'
<1>1. Cardinality(versions) \in Nat /\ IsFiniteSet(versions)
  BY FS_CardinalityType DEF Types, TypeOK
<1>2. n \notin {w.number : w \in versions}
  BY DEF Fits
<1>3. n = Cardinality(versions) + 1 /\ v \notin versions
  BY <1>1, <1>2 DEF NumbersContiguous, Fair
<1>4. IsFiniteSet(versions') /\ Cardinality(versions') = Cardinality(versions) + 1
  BY <1>1, <1>3, FS_AddElement
<1>5. {w.number : w \in versions'} = {w.number : w \in versions} \cup {n}
  OBVIOUS
<1>6. 1..(Cardinality(versions) + 1) = 1..Cardinality(versions) \cup {Cardinality(versions) + 1}
  BY <1>1
<1>7. NumbersContiguous'
  BY <1>3, <1>4, <1>5, <1>6 DEF NumbersContiguous
<1> QED
  BY <1>1, <1>3, <1>4, <1>7

-----------------------------------------------------------------------------
(* Requests that leave the row, its history and the audit log alone *)

\* What a comment, a link, a view, an edited graph does, and every request that fails.
Leaves(r) ==
  /\ UNCHANGED <<row, config, creator, versions, audit, worker, persists>>
  /\ req' \in [Requests -> Sessions]
  /\ \A q \in Requests \ {r} : req'[q] = req[q]
  /\ row # "absent"
  /\ \/ req'[r].op \notin {"none", "snapshot", "revert", "delete"}
     \/ req'[r].pc = "failed" /\ req'[r].op = req[r].op

LEMMA FailsLeaves ==
  ASSUME IInv, NEW r \in Requests, Fails(r), req[r].pc # "idle"
  PROVE  Leaves(r) /\ req'[r] = [req[r] EXCEPT !.pc = "failed"]
<1>1. /\ req' \in [Requests -> Sessions] /\ req'[r] = [req[r] EXCEPT !.pc = "failed"]
      /\ \A q \in Requests \ {r} : req'[q] = req[q]
  BY GotoKept DEF IInv, Fails
<1> QED
  BY <1>1 DEF IInv, Life, Types, Sessions, Fails, Leaves

\* What a request that starts may be.
Opens(r, s) ==
  /\ s \in Sessions /\ s.pc # "idle"
  /\ s.op \notin {"none", "snapshot", "revert", "delete"}

LEMMA StartLeaves ==
  ASSUME IInv, NEW r \in Requests, NEW s, Opens(r, s), Start(r, s), row # "absent",
         UNCHANGED <<row, config, creator, children, audit, worker, persists>>
  PROVE  Leaves(r) /\ req'[r] = s /\ req[r].pc = "idle"
<1>1. req' \in [Requests -> Sessions] /\ req'[r] = s /\ \A q \in Requests \ {r} : req'[q] = req[q]
  BY SessionKept DEF IInv, Opens, Start
<1>2. UNCHANGED <<versions, comments, shares, graphs>>
  BY DEF children
<1> QED
  BY <1>1, <1>2 DEF Opens, Start, Leaves

LEMMA DiscussLeaves ==
  ASSUME IInv, NEW r \in Requests, Discuss(r)
  PROVE  Leaves(r)
<1> USE DEF IInv
<1>1. CASE CommentBegin(r)
  <2>1. PICK u \in Users, p \in {None} \cup {c.id : c \in {d \in comments : d.parent = None}} :
          Start(r, [Opened("comment", "write") EXCEPT !.key = p, !.rest = u])
    BY <1>1 DEF CommentBegin
  <2>2. p \in Requests \cup {None}
    BY DEF Types, TypeOK, CommentRows
  <2>3. Opens(r, [Opened("comment", "write") EXCEPT !.key = p, !.rest = u])
    BY <2>2 DEF Opens, Opened, Idle, Sessions, Rests
  <2> QED
    BY <1>1, <2>1, <2>3, StartLeaves DEF CommentBegin, There
<1>2. CASE ResolveBegin(r)
  <2>1. PICK c \in comments, b \in {0, 1} :
          Start(r, [Opened("resolve", "write") EXCEPT !.num = b, !.key = c.id, !.rest = c.resolved])
    BY <1>2 DEF ResolveBegin
  <2>2. c.id \in Requests /\ c.resolved \in Rests
    BY DEF Types, TypeOK, CommentRows, Rests
  <2> DEFINE was == c.resolved
  <2>3. was \in Rests
    BY <2>2
  <2> HIDE DEF was
  <2>4. Opens(r, [Opened("resolve", "write") EXCEPT !.num = b, !.key = c.id, !.rest = was])
    <3> DEFINE id == c.id
    <3>1. id \in Requests /\ b \in Nat
      BY <2>2
    <3> HIDE DEF id
    <3>2. Opens(r, [Opened("resolve", "write") EXCEPT !.num = b, !.key = id, !.rest = was])
      BY <3>1, <2>3 DEF Opens, Opened, Idle, Sessions
    <3> QED
      BY <3>2 DEF id
  <2>5. Start(r, [Opened("resolve", "write") EXCEPT !.num = b, !.key = c.id, !.rest = was])
    BY <2>1 DEF was
  <2> QED
    BY <1>2, <2>4, <2>5, StartLeaves DEF ResolveBegin, Life, NothingOrphaned
<1>3. CASE UncommentBegin(r)
  <2>1. PICK c \in comments : Start(r, [Opened("uncomment", "write") EXCEPT !.key = c.id])
    BY <1>3 DEF UncommentBegin
  <2>2. c.id \in Requests
    BY DEF Types, TypeOK, CommentRows
  <2>3. Opens(r, [Opened("uncomment", "write") EXCEPT !.key = c.id])
    BY <2>2 DEF Opens, Opened, Idle, Sessions, Rests
  <2> QED
    BY <1>3, <2>1, <2>3, StartLeaves DEF UncommentBegin, Life, NothingOrphaned
<1>4. CASE CommentWrite(r) \/ ResolveWrite(r) \/ UncommentWrite(r)
  <2>1. req[r].pc = "write" /\ req[r].op \in {"comment", "resolve", "uncomment"}
    BY <1>4 DEF CommentWrite, ResolveWrite, UncommentWrite, At
  <2>2. CASE Fails(r)
    BY <2>1, <2>2, FailsLeaves
  <2>3. CASE /\ Goto(r, "done")
             /\ UNCHANGED <<row, config, creator, versions, audit, worker, persists>>
    <3>1. /\ req' \in [Requests -> Sessions] /\ req'[r] = [req[r] EXCEPT !.pc = "done"]
          /\ \A q \in Requests \ {r} : req'[q] = req[q]
      BY <2>3, GotoKept
    <3> QED
      BY <2>1, <2>3, <3>1 DEF Leaves, Life, Types, Sessions
  <2> QED
    BY <1>4, <2>2, <2>3 DEF CommentWrite, ResolveWrite, UncommentWrite
<1> QED
  BY <1>1, <1>2, <1>3, <1>4 DEF Discuss

LEMMA ShareLeaves ==
  ASSUME IInv, NEW r \in Requests, Share(r)
  PROVE  Leaves(r)
<1> USE DEF IInv
<1>1. CASE ShareBegin(r)
  <2>1. Opens(r, Opened("share", "write"))
    BY DEF Opens, Opened, Idle, Sessions, Rests
  <2> QED
    BY <1>1, <2>1, StartLeaves DEF ShareBegin, There
<1>2. CASE RevokeBegin(r)
  <2>1. PICK s \in shares : Start(r, [Opened("revoke", "write") EXCEPT !.key = s.token])
    BY <1>2 DEF RevokeBegin
  <2>0. s.token \in Requests /\ s.views \in Nat
    BY DEF Types, TypeOK, ShareRows
  <2>2. Opens(r, [Opened("revoke", "write") EXCEPT !.key = s.token])
    BY <2>0 DEF Opens, Opened, Idle, Sessions, Rests
  <2> QED
    BY <1>2, <2>1, <2>2, StartLeaves DEF RevokeBegin, Life, NothingOrphaned
<1>3. CASE ViewBegin(r)
  <2>1. PICK s \in shares :
          Start(r, [Opened("view", "count") EXCEPT !.num = s.views, !.key = s.token])
    BY <1>3 DEF ViewBegin
  <2>0. s.token \in Requests /\ s.views \in Nat
    BY DEF Types, TypeOK, ShareRows
  <2>2. Opens(r, [Opened("view", "count") EXCEPT !.num = s.views, !.key = s.token])
    BY <2>0 DEF Opens, Opened, Idle, Sessions, Rests
  <2> QED
    BY <1>3, <2>1, <2>2, StartLeaves DEF ViewBegin, Life, NothingOrphaned
<1>4. CASE ShareWrite(r) \/ RevokeWrite(r) \/ ViewCount(r) \/ ViewLoad(r)
  <2>1. req[r].pc \in {"write", "count", "counted"} /\ req[r].op \in {"share", "revoke", "view"}
    BY <1>4 DEF ShareWrite, RevokeWrite, ViewCount, ViewLoad, At
  <2>2. CASE Fails(r)
    BY <2>1, <2>2, FailsLeaves
  <2>3. ASSUME NEW pc \in {"done", "counted", "served", "notfound"}, Goto(r, pc),
               UNCHANGED <<row, config, creator, versions, audit, worker, persists>>
        PROVE  Leaves(r)
    <3>1. /\ req' \in [Requests -> Sessions] /\ req'[r] = [req[r] EXCEPT !.pc = pc]
          /\ \A q \in Requests \ {r} : req'[q] = req[q]
      BY <2>3, GotoKept
    <3> QED
      BY <2>1, <2>3, <3>1 DEF Leaves, Life, Types, Sessions
  <2> QED
    BY <1>4, <2>2, <2>3 DEF ShareWrite, RevokeWrite, ViewCount, ViewLoad, children
<1> QED
  BY <1>1, <1>2, <1>3, <1>4 DEF Share

LEMMA EditLeaves ==
  ASSUME IInv, NEW r \in Requests, Edit(r)
  PROVE  Leaves(r)
<1> USE DEF IInv
<1>1. CASE EditBegin(r)
  <2>1. PICK edges \in GraphEdits, p \in {None} \cup {g.id : g \in graphs} :
          Start(r, [Opened("edit", IF edges \in Refused THEN "refused" ELSE "write")
                      EXCEPT !.key = p, !.rest = edges])
    BY <1>1 DEF EditBegin
  <2> DEFINE pc == IF edges \in Refused THEN "refused" ELSE "write"
  <2>2. p \in Requests \cup {None, "discovered"} /\ pc \in {"refused", "write"}
    BY DEF Types
  <2> HIDE DEF pc
  <2>3. Opens(r, [Opened("edit", pc) EXCEPT !.key = p, !.rest = edges])
    BY <2>2 DEF Opens, Opened, Idle, Sessions, Rests
  <2>4. Start(r, [Opened("edit", pc) EXCEPT !.key = p, !.rest = edges])
    BY <2>1 DEF pc
  <2> QED
    BY <1>1, <2>3, <2>4, StartLeaves DEF EditBegin, There
<1>2. CASE EditWrite(r)
  <2>1. req[r].pc = "write" /\ req[r].op = "edit"
    BY <1>2 DEF EditWrite, At
  <2>2. CASE Fails(r)
    BY <2>1, <2>2, FailsLeaves
  <2>3. CASE /\ Goto(r, "done")
             /\ UNCHANGED <<row, config, creator, versions, audit, worker, persists>>
    <3>1. /\ req' \in [Requests -> Sessions] /\ req'[r] = [req[r] EXCEPT !.pc = "done"]
          /\ \A q \in Requests \ {r} : req'[q] = req[q]
      BY <2>3, GotoKept
    <3> QED
      BY <2>1, <2>3, <3>1 DEF Leaves, Life, Types, Sessions
  <2> QED
    BY <1>2, <2>2, <2>3 DEF EditWrite
<1> QED
  BY <1>1, <1>2 DEF Edit

\* Whoever leaves the history alone keeps what is known of it.
LEMMA LeavesHistory ==
  ASSUME IInv, NEW r \in Requests, Leaves(r)
  PROVE  Numbers' /\ Past' /\ Trail'
<1> USE DEF IInv, Leaves
<1>1. There' <=> There
  BY DEF There
<1>2. \A q \in Requests : \/ req'[q] = req[q]
                          \/ req'[q].op \notin {"snapshot", "revert"}
                          \/ req'[q].pc = "failed"
  OBVIOUS
<1>3. NumbersContiguous'
  BY DEF Numbers, NumbersContiguous
<1>4. Numbers'
  BY <1>1, <1>2, <1>3 DEF Numbers, Fair, At
<1>5. Past'
  BY <1>1, <1>2 DEF Past, ConfigInHistory
<1>6. Trail'
  BY <1>1 DEF Trail, AuditTrail
<1> QED
  BY <1>4, <1>5, <1>6

\* No comment is drafted where another request moves.
LEMMA DraftsKept ==
  ASSUME IInv, NEW r \in Requests,
         \A q \in Requests \ {r} : req'[q] = req[q],
         ~At(r, "comment", "write")'
  PROVE  Drafts'
<1>1. \A q \in Requests : At(q, "comment", "write")' => At(q, "comment", "write") /\ req'[q] = req[q]
  BY DEF At
<1> QED
  BY <1>1 DEF IInv, Drafts

\* Entries that tell of no configuration change nothing of the trail.
LEMMA TrailKept ==
  ASSUME Trail, UNCHANGED versions, There' => There,
         creator'.pc = "enqueue" => UNCHANGED creator,
         audit \subseteq audit', \A a \in audit' \ audit : a.config = None
  PROVE  Trail'
<1>1. {a \in audit' : a.config # None} = {a \in audit : a.config # None}
  OBVIOUS
<1>2. {Logged(v) : v \in versions'} = {Logged(v) : v \in versions}
  OBVIOUS
<1>3. {Logged(v) : v \in {w \in versions' : w.kind # "initial"}}
        = {Logged(v) : v \in {w \in versions : w.kind # "initial"}}
  OBVIOUS
<1>4. AuditTrail'
  BY <1>1, <1>2, <1>3 DEF Trail, AuditTrail
<1> QED
  BY <1>4 DEF Trail

\* A version and its entry, or a first version without one.
LEMMA TrailExtended ==
  ASSUME Trail, There, NEW n, NEW conf \in Configs,
         NEW kind \in {"initial", "auto", "snapshot", "revert"},
         versions' = versions \cup {Version(n, conf, kind)},
         IF kind = "initial" THEN UNCHANGED audit
         ELSE audit' = audit \cup {Logged(Version(n, conf, kind))},
         creator'.pc = "enqueue" =>
           UNCHANGED creator \/ (kind = "initial" /\ creator'.conf = conf)
  PROVE  Trail'
<1> DEFINE v == Version(n, conf, kind)
           told == {a \in audit : a.config # None}
<1>1. v.config = conf /\ v.kind = kind /\ v.number = n
  BY DEF Version
<1>2. Logged(v).config # None
  BY <1>1, AnalysisRecordsAssumption DEF Logged, Entry
<1> HIDE DEF v
<1>3. versions' = versions \cup {v}
  BY DEF v
<1>4. /\ told \subseteq {Logged(w) : w \in versions}
      /\ {Logged(w) : w \in {x \in versions : x.kind # "initial"}} \subseteq told
  BY DEF Trail, AuditTrail
<1>5. CASE kind = "initial"
  <2>1. {a \in audit' : a.config # None} = told
    BY <1>5
  <2>2. {x \in versions' : x.kind # "initial"} = {x \in versions : x.kind # "initial"}
    BY <1>1, <1>3, <1>5
  <2>3. {Logged(w) : w \in {x \in versions' : x.kind # "initial"}}
          = {Logged(w) : w \in {x \in versions : x.kind # "initial"}}
    BY <2>2
  <2>4. told \subseteq {Logged(w) : w \in versions'}
    BY <1>3, <1>4
  <2> QED
    BY <1>1, <1>3, <1>4, <1>5, <2>1, <2>3, <2>4 DEF Trail, AuditTrail
<1>6. CASE kind # "initial"
  <2>1. {a \in audit' : a.config # None} = told \cup {Logged(v)}
    BY <1>2, <1>6 DEF v
  <2>2. {Logged(w) : w \in {x \in versions' : x.kind # "initial"}}
          = {Logged(w) : w \in {x \in versions : x.kind # "initial"}} \cup {Logged(v)}
    BY <1>1, <1>3, <1>6
  <2>3. {Logged(w) : w \in versions'} = {Logged(w) : w \in versions} \cup {Logged(v)}
    BY <1>3
  <2>4. AuditTrail'
    BY <1>4, <2>1, <2>2, <2>3 DEF AuditTrail
  <2> QED
    BY <1>3, <1>6, <2>4 DEF Trail
<1> QED
  BY <1>5, <1>6

\* The creation's entry tells the configuration of the first version.
LEMMA TrailOfCreation ==
  ASSUME Trail, There, creator.pc = "enqueue", creator'.pc # "enqueue",
         UNCHANGED <<row, versions>>,
         audit' = audit \cup {Entry("create", 0, creator.conf), Bare("update")}
  PROVE  Trail'
<1> DEFINE told == {a \in audit : a.config # None}
           told1 == {a \in audit' : a.config # None}
           entry == Entry("create", 0, creator.conf)
<1>1. PICK v \in versions : v.kind = "initial" /\ v.config = creator.conf
  BY DEF Trail
<1>2. Logged(v) = entry
  BY <1>1 DEF Logged
<1>3. Bare("update").config = None
  BY DEF Bare, Entry
<1>4. /\ told \subseteq {Logged(w) : w \in versions}
      /\ {Logged(w) : w \in {x \in versions : x.kind # "initial"}} \subseteq told
  BY DEF Trail, AuditTrail
<1> HIDE DEF entry
<1>5. told \subseteq told1 /\ told1 \subseteq told \cup {entry}
  BY <1>3 DEF entry
<1>6. told1 \subseteq {Logged(w) : w \in versions}
  BY <1>2, <1>4, <1>5
<1> QED
  BY <1>4, <1>5, <1>6 DEF Trail, AuditTrail

-----------------------------------------------------------------------------
(* The creation *)

LEMMA CreationKept ==
  ASSUME IInv, Creation
  PROVE  IInv'
<1> USE DEF IInv
<1>0. UNCHANGED <<comments, shares, req, worker, persists, config>>
  BY DEF Creation, CreateRow, CreateNumber, CreateVersion, Enqueue, children
<1>1. Drafts'
  BY <1>0 DEF Drafts, At
<1>2. CASE CreateRow
  <2>0. UNCHANGED <<versions, audit, req, worker>>
    BY <1>2 DEF CreateRow
  <2>1. row = "absent" /\ versions = {} /\ audit = {} /\ \A r \in Requests : req[r].pc = "idle"
    BY <1>2 DEF CreateRow, Life, NothingOrphaned
  <2>2. Types'
    <3>1. creator' \in Sessions
      BY <1>2 DEF CreateRow, Types, TypeOK, Sessions
    <3>2. \A g \in graphs' : g.id = "discovered"
      BY <1>2 DEF CreateRow
    <3>3. row' = "live" /\ creator'.pc = "number"
      BY <1>2 DEF CreateRow, Types, Sessions
    <3> QED
      BY <1>0, <2>0, <3>1, <3>2, <3>3 DEF Types, TypeOK, Sessions
  <2>3. Life'
    BY <1>0, <1>2, <2>0, <2>1 DEF CreateRow, Life, NothingOrphaned, At, Types, Sessions
  <2>4. creator'.pc = "number" /\ creator'.conf = config
    BY <1>2 DEF CreateRow, Types, Sessions
  <2>5. Numbers'
    BY <1>0, <2>0, <2>1, <2>4 DEF Numbers, NumbersContiguous, At, Life
  <2>6. Past'
    BY <1>0, <2>0, <2>1, <2>4 DEF Past, ConfigInHistory, Types, TypeOK, There, Life
  <2>7. Trail'
    BY <2>0, <2>1, <2>4 DEF Trail, AuditTrail
  <2> QED
    BY <1>1, <2>2, <2>3, <2>5, <2>6, <2>7
<1>3. CASE CreateNumber
  <2>0. UNCHANGED <<row, versions, audit, req, worker, graphs>>
    BY <1>3 DEF CreateNumber, children
  <2>1. Fair(NextNumber) /\ NextNumber \in Nat
    BY NextIsFair DEF Numbers
  <2>2. creator' \in Sessions
    BY <1>3, <2>1 DEF CreateNumber, Types, Sessions
  <2>3. creator.pc = "number" /\ creator'.pc = "write" /\ creator'.num = NextNumber
          /\ creator'.conf = creator.conf
    BY <1>3 DEF CreateNumber, Types, Sessions
  <2>4. Types' /\ Life'
    BY <1>0, <2>0, <2>2, <2>3 DEF Types, TypeOK, Life, NothingOrphaned, At, Sessions
  <2>5. There' <=> There
    BY <2>0 DEF There
  <2>6. Numbers'
    BY <1>0, <2>0, <2>1, <2>3, <2>5 DEF Numbers, NumbersContiguous, Fair, At
  <2>7. Past' /\ Trail'
    BY <1>0, <2>0, <2>3, <2>5, TrailKept DEF Past, ConfigInHistory
  <2> QED
    BY <1>1, <2>4, <2>6, <2>7
<1>4. CASE CreateVersion /\ Fits(creator.num)
  <2>0. /\ UNCHANGED <<row, audit, req, worker, graphs>>
        /\ creator.pc = "write" /\ There
        /\ versions' = versions \cup {Version(creator.num, creator.conf, "initial")}
    BY <1>4 DEF CreateVersion, Fits
  <2>1. creator' \in Sessions /\ creator'.pc = "enqueue"
    BY <1>4 DEF CreateVersion, Types, Sessions
  <2>2. creator.conf \in Configs
    BY <2>0 DEF Past
  <2>3. /\ creator.num = Cardinality(versions) + 1 /\ creator.num \in Nat \ {0}
        /\ IsFiniteSet(versions') /\ Cardinality(versions') = Cardinality(versions) + 1
        /\ NumbersContiguous'
    BY <1>4, <2>0, FitsNext DEF Numbers, Version
  <2>4. versions' \subseteq VersionRows
    BY <2>0, <2>2, <2>3 DEF Types, TypeOK, Version, VersionRows
  <2>5. Types'
    BY <1>0, <2>0, <2>1, <2>3, <2>4 DEF Types, TypeOK, Sessions
  <2>6. Life'
    BY <1>0, <2>0, <2>1 DEF Life, NothingOrphaned, At, There
  <2>7. Numbers'
    <3>1. \A n : Fair(n) => Fair(n)'
      BY <2>3 DEF Fair
    <3> QED
      BY <1>0, <2>0, <2>1, <2>3, <3>1 DEF Numbers, At, There
  <2>8. Past'
    <3>1. versions = {} => creator.conf = config
      BY <2>0 DEF Past
    <3>2. config \in {v.config : v \in versions'}
      <4>1. CASE versions = {}
        BY <2>0, <3>1, <4>1 DEF Version
      <4>2. CASE versions # {}
        BY <2>0, <4>2 DEF Past, ConfigInHistory
      <4> QED
        BY <4>1, <4>2
    <3> QED
      BY <1>0, <2>0, <2>1, <3>2 DEF Past, ConfigInHistory
  <2>9. Trail'
    <3>1. creator'.conf = creator.conf
      BY <1>4 DEF CreateVersion, Types, Sessions
    <3> QED
      BY <2>0, <2>2, <3>1, TrailExtended
  <2> QED
    BY <1>1, <2>5, <2>6, <2>7, <2>8, <2>9
<1>5. CASE Enqueue \/ (CreateVersion /\ ~Fits(creator.num))
  <2>0. UNCHANGED <<row, versions, req, worker, graphs>>
    BY <1>5 DEF CreateVersion, Enqueue, children
  <2>1. /\ creator.pc \in {"write", "enqueue"} /\ creator' \in Sessions
        /\ creator'.pc \in {"queued", "failed"}
    BY <1>5 DEF CreateVersion, Enqueue, Types, Sessions
  <2>2. \/ UNCHANGED audit
        \/ /\ creator.pc = "enqueue" /\ There
           /\ audit' = audit \cup {Entry("create", 0, creator.conf), Bare("update")}
    BY <1>5 DEF CreateVersion, Enqueue
  <2>3. audit \subseteq audit' /\ audit' \subseteq AuditRows
    BY <2>2 DEF Types, TypeOK, Sessions, AuditRows, Entry, Bare
  <2>4. Types' /\ Life'
    BY <1>0, <2>0, <2>1, <2>3 DEF Types, TypeOK, Life, NothingOrphaned, At, Sessions
  <2>5. There' <=> There
    BY <2>0 DEF There
  <2>6. Numbers' /\ Past'
    BY <1>0, <2>0, <2>1, <2>5 DEF Numbers, NumbersContiguous, Fair, At, Past, ConfigInHistory
  <2>7. Trail'
    BY <2>0, <2>1, <2>2, <2>5, TrailKept, TrailOfCreation
  <2> QED
    BY <1>1, <2>4, <2>6, <2>7
<1> QED
  BY <1>2, <1>3, <1>4, <1>5 DEF Creation

-----------------------------------------------------------------------------
(* EDA *)

LEMMA PersistKept ==
  ASSUME IInv, Persist
  PROVE  IInv'
<1> USE DEF IInv
<1>0. UNCHANGED <<row, creator, comments, shares, graphs, req>>
  BY DEF Persist, PersistBegin, PersistInPlace, PersistNumber, PersistWrite, children
<1>1. There' <=> There
  BY <1>0 DEF There
<1>2. Drafts'
  BY <1>0 DEF Drafts, At
<1>3. row # "absent"
  BY DEF Persist, PersistBegin, PersistInPlace, PersistNumber, PersistWrite, Life, There
<1>4. CASE /\ UNCHANGED <<versions, config>>
           /\ PersistBegin \/ PersistInPlace \/ PersistNumber \/ PersistWrite
  <2>1. Fair(NextNumber) /\ NextNumber \in Nat
    BY NextIsFair DEF Numbers
  <2>2. /\ worker' \in Sessions /\ worker'.pc \in {"idle", "compare", "write"}
        /\ persists' \in 0..MaxPersists
        /\ worker'.pc = "write" => Fair(worker'.num)
        /\ worker'.pc \in {"compare", "write"} => worker'.conf \in Configs
    <3>1. CASE PersistBegin
      <4>1. persists' \in 0..MaxPersists
        BY <3>1, AnalysisRecordsAssumption DEF PersistBegin, Types, TypeOK
      <4>2. config \in Configs /\ worker' = [Idle EXCEPT !.pc = "compare", !.conf = config]
        BY <3>1 DEF PersistBegin, Types, TypeOK
      <4>3. worker' \in Sessions /\ worker'.pc = "compare" /\ worker'.conf = config
        BY <4>2 DEF Sessions, Rests, Idle
      <4> QED
        BY <4>1, <4>2, <4>3
    <3>2. CASE PersistNumber
      BY <2>1, <3>2 DEF PersistNumber, Types, TypeOK, Sessions, Past
    <3>3. CASE PersistInPlace \/ PersistWrite
      BY <3>3 DEF PersistInPlace, PersistWrite, Types, TypeOK, Sessions, Rests, Idle
    <3> QED
      BY <1>4, <3>1, <3>2, <3>3
  <2>3. Types' /\ Life' /\ Trail' /\ audit \subseteq audit'
    <3>1. CASE UNCHANGED audit
      <4>1. Trail'
        BY <1>0, <1>1, <1>4, <3>1, TrailKept
      <4>2. Types'
        BY <1>0, <1>4, <2>2, <3>1 DEF Types, TypeOK, Sessions
      <4>3. Life'
        BY <1>0, <1>3, <1>4, <3>1 DEF Life, NothingOrphaned, At
      <4> QED
        BY <3>1, <4>1, <4>2, <4>3
    <3>2. CASE audit' = audit \cup {Bare("update")}
      <4>1. Trail'
        <5>1. \A a \in audit' \ audit : a.config = None
          BY <3>2 DEF Bare, Entry
        <5> QED
          BY <1>0, <1>1, <1>4, <3>2, <5>1, TrailKept
      <4>2. audit \subseteq audit' /\ audit' \subseteq AuditRows
        BY <3>2 DEF Types, TypeOK, AuditRows, Entry, Bare
      <4>3. Types'
        BY <1>0, <1>4, <2>2, <4>2 DEF Types, TypeOK, Sessions
      <4>4. Life'
        BY <1>0, <1>3, <1>4, <4>2 DEF Life, NothingOrphaned, At
      <4> QED
        BY <4>1, <4>2, <4>3, <4>4
    <3>3. CASE PersistWrite /\ Fits(worker.num)
      <4>1. worker.pc = "write" /\ Fair(worker.num)
        BY <3>3 DEF PersistWrite, Numbers, Fits
      <4>2. versions' = versions \cup {Version(worker.num, "typed", "auto")}
        BY <3>3 DEF PersistWrite
      <4>3. Cardinality(versions') = Cardinality(versions) + 1 /\ Cardinality(versions) \in Nat
        BY <3>3, <4>1, <4>2, FitsNext, NextIsFair DEF Numbers, Version
      <4> QED
        BY <1>4, <4>3
    <3> QED
      BY <1>4, <3>1, <3>2, <3>3
      DEF PersistBegin, PersistInPlace, PersistNumber, PersistWrite
  <2>4. Numbers'
    BY <1>0, <1>1, <1>4, <2>2 DEF Numbers, NumbersContiguous, Fair, At
  <2>5. Past'
    BY <1>0, <1>1, <1>4, <2>2 DEF Past, ConfigInHistory
  <2> QED
    BY <1>2, <2>3, <2>4, <2>5
<1>5. CASE PersistWrite /\ Fits(worker.num)
  <2>0. /\ worker.pc = "write" /\ There /\ config' = "typed" /\ UNCHANGED persists
        /\ versions' = versions \cup {Version(worker.num, "typed", "auto")}
        /\ audit' = audit \cup {Entry("update", 0, "typed")}
        /\ worker' = Idle
    BY <1>5 DEF PersistWrite, Fits
  <2>1. worker' \in Sessions /\ worker'.pc = "idle"
    BY <2>0 DEF Idle, Sessions, Rests
  <2>2. /\ worker.num = Cardinality(versions) + 1 /\ worker.num \in Nat \ {0}
        /\ IsFiniteSet(versions') /\ Cardinality(versions') = Cardinality(versions) + 1
        /\ NumbersContiguous'
    BY <1>5, <2>0, FitsNext DEF Numbers, Version
  <2>3. versions' \subseteq VersionRows /\ audit' \subseteq AuditRows /\ audit \subseteq audit'
    BY <2>0, <2>2 DEF Types, TypeOK, Version, VersionRows, Configs, AuditRows, Entry
  <2>4. Types'
    BY <1>0, <2>0, <2>1, <2>2, <2>3 DEF Types, TypeOK, Sessions, Configs
  <2>5. Life'
    BY <1>0, <2>0, <2>1, <2>3 DEF Life, NothingOrphaned, At, There
  <2>6. Numbers'
    <3>1. \A n : Fair(n) => Fair(n)'
      BY <2>2 DEF Fair
    <3> QED
      BY <1>0, <1>1, <2>1, <2>2, <3>1 DEF Numbers, At
  <2>7. Past'
    <3>1. Version(worker.num, "typed", "auto").config = "typed"
      BY DEF Version
    <3> QED
      BY <1>0, <2>0, <2>1, <3>1 DEF Past, ConfigInHistory
  <2>8. Trail'
    <3>1. Logged(Version(worker.num, "typed", "auto")) = Entry("update", 0, "typed")
      BY DEF Logged, Version
    <3> QED
      BY <1>0, <2>0, <3>1, TrailExtended DEF Configs
  <2> QED
    BY <1>2, <2>4, <2>5, <2>6, <2>7, <2>8
<1> QED
  BY <1>4, <1>5 DEF Persist, PersistBegin, PersistInPlace, PersistNumber, PersistWrite, children

-----------------------------------------------------------------------------
(* Snapshots and reverts *)

\* What the parts need of a request that reads.
LEMMA ReadingKept ==
  ASSUME IInv, NEW r \in Requests, NEW s \in Sessions, There,
         req' = [req EXCEPT ![r] = s],
         UNCHANGED <<row, config, creator, versions, audit, comments, shares, graphs, worker,
                     persists>>,
         req[r].pc # "done", s.op \in {"snapshot", "revert"}, s.pc \in {"number", "write"},
         s.pc = "write" => Fair(s.num),
         s.op = "snapshot" => s.conf \in Configs /\ (versions = {} => s.conf = config),
         s.op = "revert" => s.rest \in Configs /\ versions # {}
  PROVE  IInv'
<1> USE DEF IInv
<1>1. /\ req' \in [Requests -> Sessions] /\ req'[r] = s
      /\ \A q \in Requests \ {r} : req'[q] = req[q]
  BY SessionKept
<1>2. There'
  BY DEF There
<1>3. Types'
  BY <1>1 DEF Types, TypeOK, Sessions
<1>4. Life'
  BY <1>1, <1>2 DEF Life, NothingOrphaned, At, There
<1>5. Drafts'
  BY <1>1, DraftsKept DEF At
<1>6. Numbers'
  BY <1>1, <1>2 DEF Numbers, NumbersContiguous, Fair, At
<1>7. Past'
  BY <1>1, <1>2 DEF Past, ConfigInHistory
<1>8. Trail'
  BY <1>2, TrailKept
<1> QED
  BY <1>3, <1>4, <1>5, <1>6, <1>7, <1>8

\* Whoever fails leaves everything as it was.
LEMMA FailsKept ==
  ASSUME IInv, NEW r \in Requests, Fails(r), req[r].pc \notin {"idle", "done"}
  PROVE  IInv'
<1> USE DEF IInv
<1>1. Leaves(r) /\ req'[r] = [req[r] EXCEPT !.pc = "failed"]
  BY FailsLeaves
<1>2. UNCHANGED <<row, config, creator, versions, audit, comments, shares, graphs, worker, persists>>
  BY DEF Fails
<1>3. req'[r].pc = "failed"
  BY <1>1 DEF Types, Sessions
<1>4. Types'
  BY <1>1, <1>2 DEF Leaves, Types, TypeOK, Sessions
<1>5. Life'
  BY <1>1, <1>2, <1>3 DEF Leaves, Life, NothingOrphaned, At
<1>6. Drafts'
  BY <1>1, <1>3, DraftsKept DEF Leaves, At
<1> QED
  BY <1>1, <1>4, <1>5, <1>6, LeavesHistory

\* A version and its log entry at once, with the configuration it is of or the
\* one that is in the history.
LEMMA VersionKept ==
  ASSUME IInv, NEW r \in Requests, NEW conf \in Configs, NEW kind \in {"snapshot", "revert"},
         req[r].pc = "write", req[r].op = kind, Fits(req[r].num), Goto(r, "done"),
         versions' = versions \cup {Version(req[r].num, conf, kind)},
         audit' = audit \cup {Entry(kind, req[r].num, conf)},
         UNCHANGED <<row, creator, comments, shares, graphs, worker, persists>>,
         config' = conf \/ (config' = config /\ versions # {})
  PROVE  IInv'
<1> USE DEF IInv
<1> DEFINE n == req[r].num
<1>1. /\ req' \in [Requests -> Sessions] /\ req'[r] = [req[r] EXCEPT !.pc = "done"]
      /\ \A q \in Requests \ {r} : req'[q] = req[q]
  BY GotoKept
<1>2. req'[r].pc = "done" /\ req'[r].op = kind
  BY <1>1 DEF Types, Sessions
<1>3. There /\ There' /\ Fair(n)
  BY DEF Fits, There, Numbers, At
<1>4. /\ n = Cardinality(versions) + 1 /\ n \in Nat \ {0}
      /\ IsFiniteSet(versions') /\ Cardinality(versions') = Cardinality(versions) + 1
      /\ NumbersContiguous'
  BY <1>3, FitsNext DEF Numbers, Version
<1>5. versions' \subseteq VersionRows /\ audit' \subseteq AuditRows /\ audit \subseteq audit'
  BY <1>4 DEF Types, TypeOK, Version, VersionRows, AuditRows, Entry
<1>6. Types'
  BY <1>1, <1>4, <1>5 DEF Types, TypeOK, Sessions
<1>7. Life'
  BY <1>1, <1>2, <1>3, <1>5 DEF Life, NothingOrphaned, At, There
<1>8. Numbers'
  <2>1. \A m : Fair(m) => Fair(m)'
    BY <1>4 DEF Fair
  <2> QED
    BY <1>1, <1>2, <1>3, <1>4, <2>1 DEF Numbers, At
<1>9. Past'
  <2>1. config' \in {v.config : v \in versions'}
    <3>1. CASE config' = conf
      BY <3>1 DEF Version
    <3>2. CASE config' = config /\ versions # {}
      BY <3>2 DEF Past, ConfigInHistory
    <3> QED
      BY <3>1, <3>2
  <2> QED
    BY <1>1, <1>2, <2>1 DEF Past, ConfigInHistory
<1>10. Trail'
  <2>1. Logged(Version(n, conf, kind)) = Entry(kind, n, conf)
    BY DEF Logged, Version
  <2> QED
    BY <1>3, <2>1, TrailExtended
<1>11. Drafts'
  BY <1>1, <1>2, DraftsKept DEF At
<1> QED
  BY <1>6, <1>7, <1>8, <1>9, <1>10, <1>11

LEMMA HistoryKept ==
  ASSUME IInv, NEW r \in Requests, History(r)
  PROVE  IInv'
<1> USE DEF IInv
<1>1. CASE SnapshotBegin(r)
  <2>1. config \in Configs
    BY DEF Types, TypeOK
  <2>2. [Opened("snapshot", "number") EXCEPT !.conf = config] \in Sessions
    BY <2>1 DEF Opened, Idle, Sessions, Rests
  <2>3. req' = [req EXCEPT ![r] = [Opened("snapshot", "number") EXCEPT !.conf = config]]
          /\ req[r].pc = "idle" /\ There
    BY <1>1 DEF SnapshotBegin, Start
  <2> QED
    BY <1>1, <2>1, <2>2, <2>3, ReadingKept DEF SnapshotBegin, Opened, Idle, children
<1>2. CASE RevertBegin(r)
  <2>1. PICK v \in versions :
          Start(r, [Opened("revert", "number") EXCEPT !.conf = config, !.rest = v.config])
    BY <1>2 DEF RevertBegin
  <2> DEFINE target == v.config
             s == [Opened("revert", "number") EXCEPT !.conf = config, !.rest = target]
  <2>2. target \in Configs /\ config \in Configs
    BY DEF Types, TypeOK, VersionRows
  <2> HIDE DEF target
  <2>3. s \in Sessions /\ s.op = "revert" /\ s.pc = "number" /\ s.rest = target
    BY <2>2 DEF Opened, Idle, Sessions, Rests
  <2>4. req' = [req EXCEPT ![r] = s] /\ req[r].pc = "idle" /\ There
    BY <1>2, <2>1 DEF RevertBegin, Start, target
  <2> HIDE DEF s
  <2> QED
    BY <1>2, <2>2, <2>3, <2>4, ReadingKept DEF RevertBegin, children
<1>3. CASE Number(r)
  <2> DEFINE s == [req[r] EXCEPT !.num = NextNumber, !.pc = "write"]
  <2>1. Fair(NextNumber) /\ NextNumber \in Nat
    BY NextIsFair DEF Numbers
  <2>2. /\ s \in Sessions /\ s.pc = "write" /\ s.num = NextNumber
        /\ s.op = req[r].op /\ s.conf = req[r].conf /\ s.rest = req[r].rest
    BY <2>1 DEF Types, Sessions
  <2>3. req' = [req EXCEPT ![r] = s] /\ req[r].pc = "number"
          /\ req[r].op \in {"snapshot", "revert"}
    BY <1>3 DEF Number, At
  <2> HIDE DEF s
  <2>4. UNCHANGED <<row, config, creator, versions, audit, comments, shares, graphs, worker, persists>>
    BY <1>3 DEF Number, children
  <2>5. CASE There
    BY <2>1, <2>2, <2>3, <2>4, <2>5, ReadingKept DEF Past
  <2>6. CASE ~There
    <3>1. /\ req' \in [Requests -> Sessions] /\ req'[r] = s
          /\ \A q \in Requests \ {r} : req'[q] = req[q]
      BY <2>2, <2>3, SessionKept
    <3>2. ~There'
      BY <2>4, <2>6 DEF There
    <3>3. Types'
      BY <2>4, <3>1 DEF Types, TypeOK, Sessions
    <3>4. Life'
      BY <2>2, <2>3, <2>4, <3>1 DEF Life, NothingOrphaned, At
    <3>5. Drafts'
      BY <2>2, <2>3, <3>1, DraftsKept DEF At
    <3>6. Numbers'
      BY <2>4, <3>2 DEF Numbers, NumbersContiguous
    <3>7. Past' /\ Trail'
      BY <2>2, <2>3, <2>4, <3>1, <3>2 DEF Past, ConfigInHistory, Trail, AuditTrail
    <3> QED
      BY <3>3, <3>4, <3>5, <3>6, <3>7
  <2> QED
    BY <2>5, <2>6
<1>4. CASE SnapshotWrite(r)
  <2>1. req[r].pc = "write" /\ req[r].op = "snapshot"
    BY <1>4 DEF SnapshotWrite, At
  <2>2. CASE Fits(req[r].num) /\ ~Fails(r)
    <3>1. req[r].conf \in Configs /\ (versions = {} => config = req[r].conf)
      BY <2>1, <2>2 DEF Past, Fits
    <3> QED
      BY <1>4, <2>1, <2>2, <3>1, VersionKept DEF SnapshotWrite
  <2> QED
    BY <1>4, <2>1, <2>2, FailsKept DEF SnapshotWrite
<1>5. CASE RevertWrite(r)
  <2>1. req[r].pc = "write" /\ req[r].op = "revert"
    BY <1>5 DEF RevertWrite, At
  <2>2. CASE Fits(req[r].num) /\ ~Fails(r)
    <3>1. req[r].rest \in Configs /\ versions # {}
      BY <2>1, <2>2 DEF Past, Fits
    <3> QED
      BY <1>5, <2>1, <2>2, <3>1, VersionKept DEF RevertWrite
  <2> QED
    BY <1>5, <2>1, <2>2, FailsKept DEF RevertWrite
<1> QED
  BY <1>1, <1>2, <1>3, <1>4, <1>5 DEF History

-----------------------------------------------------------------------------
(* Comments, links and edited graphs *)

\* What a step that leaves the history alone must show of what it does write.
LEMMA LeavesKept ==
  ASSUME IInv, NEW r \in Requests, Leaves(r), Drafts', req[r].op # "delete",
         comments' \subseteq CommentRows, shares' \subseteq ShareRows,
         \A g \in graphs' : g.id \in Requests \cup {"discovered"},
         ~There => (comments = {} => comments' = {}) /\ (shares = {} => shares' = {})
                     /\ (graphs = {} => graphs' = {}),
         req'[r].pc # "idle"
  PROVE  IInv'
<1> USE DEF IInv, Leaves
<1>1. Types'
  BY DEF Types, TypeOK, Sessions
<1>2. Life'
  <2>1. NothingOrphaned'
    BY DEF Life, NothingOrphaned, There, Types, TypeOK
  <2>2. ~At(r, "delete", "remove")'
    BY DEF At
  <2> QED
    BY <2>1, <2>2 DEF Life, At
<1> QED
  BY <1>1, <1>2, LeavesHistory

\* What Goto does to the session of a write.
LEMMA Ends ==
  ASSUME IInv, NEW r \in Requests, NEW pc \in {"done", "counted", "served", "notfound"},
         Goto(r, pc)
  PROVE  /\ req'[r].pc = pc /\ req'[r].op = req[r].op /\ req'[r].key = req[r].key
         /\ req'[r].rest = req[r].rest /\ req'[r].num = req[r].num
         /\ \A q \in Requests \ {r} : req'[q] = req[q]
<1>1. /\ req'[r] = [req[r] EXCEPT !.pc = pc] /\ \A q \in Requests \ {r} : req'[q] = req[q]
  BY GotoKept DEF IInv
<1> QED
  BY <1>1 DEF IInv, Types, Sessions

LEMMA CommentKept ==
  ASSUME IInv, NEW r \in Requests, CommentBegin(r) \/ CommentWrite(r)
  PROVE  IInv'
<1> USE DEF IInv
<1>0. Leaves(r) /\ \A c \in comments : c.id \in Requests
  BY DiscussLeaves DEF Discuss, Types, TypeOK, CommentRows
<1>1. CASE CommentBegin(r)
  <2>1. PICK u \in Users, p \in {None} \cup {c.id : c \in {d \in comments : d.parent = None}} :
          Start(r, [Opened("comment", "write") EXCEPT !.key = p, !.rest = u])
    BY <1>1 DEF CommentBegin
  <2>2. /\ req[r].pc = "idle" /\ req'[r].op = "comment" /\ req'[r].pc = "write"
        /\ req'[r].key = p /\ req'[r].rest = u
        /\ \A q \in Requests \ {r} : req'[q] = req[q]
        /\ UNCHANGED <<comments, shares, graphs>>
    BY <1>1, <2>1 DEF CommentBegin, Start, Opened, Idle, Types, children
  <2>3. req[r].op = "none"
    BY <2>2 DEF Life
  <2>4. Drafts'
    BY <1>0, <2>2 DEF Drafts, At
  <2> QED
    BY <1>0, <2>2, <2>3, <2>4, LeavesKept DEF Types, TypeOK
<1>2. CASE CommentWrite(r) /\ ~Fails(r)
  <2> DEFINE new == [id |-> r, parent |-> req[r].key, user |-> req[r].rest, resolved |-> FALSE]
  <2>1. /\ At(r, "comment", "write") /\ There /\ Goto(r, "done")
        /\ comments' = comments \cup {new}
        /\ UNCHANGED <<shares, graphs>>
    BY <1>2 DEF CommentWrite
  <2>2. /\ req'[r].pc = "done" /\ req'[r].op = "comment"
        /\ \A q \in Requests \ {r} : req'[q] = req[q]
    BY <2>1, Ends DEF At
  <2>3. new \in CommentRows
    BY <2>1 DEF Drafts, CommentRows
  <2>4. Drafts'
    BY <2>2, DraftsKept DEF At
  <2>5. comments' \subseteq CommentRows
    BY <2>1, <2>3 DEF Types, TypeOK
  <2> QED
    BY <1>0, <2>1, <2>2, <2>4, <2>5, LeavesKept DEF Types, TypeOK, At
<1> QED
  BY <1>1, <1>2, FailsKept DEF CommentWrite, At

LEMMA ResolveKept ==
  ASSUME IInv, NEW r \in Requests, ResolveBegin(r) \/ ResolveWrite(r)
  PROVE  IInv'
<1> USE DEF IInv
<1>0. Leaves(r)
  BY DiscussLeaves DEF Discuss
<1>1. CASE ResolveBegin(r)
  <2>1. /\ req[r].pc = "idle" /\ req'[r].op = "resolve" /\ req'[r].pc = "write"
        /\ UNCHANGED <<comments, shares, graphs>>
    BY <1>1 DEF ResolveBegin, Start, Opened, Idle, Types, children
  <2>2. Drafts'
    BY <1>0, <2>1, DraftsKept DEF Leaves, At
  <2> QED
    BY <1>0, <2>1, <2>2, LeavesKept DEF Types, TypeOK, Life
<1>2. CASE ResolveWrite(r) /\ ~Fails(r)
  <2> DEFINE new == req[r].num = 1
             mine == {c \in comments : c.id = req[r].key}
             Set(c) == [c EXCEPT !.resolved = new]
  <2>1. /\ At(r, "resolve", "write") /\ Goto(r, "done") /\ UNCHANGED <<shares, graphs>>
        /\ comments' = comments \/ comments' = (comments \ mine) \cup {Set(c) : c \in mine}
    BY <1>2 DEF ResolveWrite
  <2>2. req'[r].pc = "done" /\ req'[r].op = "resolve"
    BY <2>1, Ends DEF At
  <2>3. \A c \in comments : Set(c) \in CommentRows
    BY DEF Types, TypeOK, CommentRows
  <2> HIDE DEF Set
  <2>4. comments' \subseteq CommentRows /\ (comments = {} => comments' = {})
    BY <2>1, <2>3 DEF Types, TypeOK
  <2>5. Drafts'
    BY <1>0, <2>2, DraftsKept DEF Leaves, At
  <2> QED
    BY <1>0, <2>1, <2>2, <2>4, <2>5, LeavesKept DEF Types, TypeOK, At
<1> QED
  BY <1>1, <1>2, FailsKept DEF ResolveWrite, At

LEMMA UncommentKept ==
  ASSUME IInv, NEW r \in Requests, UncommentBegin(r) \/ UncommentWrite(r)
  PROVE  IInv'
<1> USE DEF IInv
<1>0. Leaves(r)
  BY DiscussLeaves DEF Discuss
<1>1. CASE UncommentBegin(r)
  <2>1. /\ req[r].pc = "idle" /\ req'[r].op = "uncomment" /\ req'[r].pc = "write"
        /\ UNCHANGED <<comments, shares, graphs>>
    BY <1>1 DEF UncommentBegin, Start, Opened, Idle, Types, children
  <2>2. Drafts'
    BY <1>0, <2>1, DraftsKept DEF Leaves, At
  <2> QED
    BY <1>0, <2>1, <2>2, LeavesKept DEF Types, TypeOK, Life
<1>2. CASE UncommentWrite(r)
  <2>1. /\ At(r, "uncomment", "write") /\ Goto(r, "done") /\ UNCHANGED <<shares, graphs>>
        /\ comments' \subseteq comments
    BY <1>2 DEF UncommentWrite
  <2>2. req'[r].pc = "done" /\ req'[r].op = "uncomment"
    BY <2>1, Ends DEF At
  <2>3. Drafts'
    BY <1>0, <2>2, DraftsKept DEF Leaves, At
  <2> QED
    BY <1>0, <2>1, <2>2, <2>3, LeavesKept DEF Types, TypeOK, At
<1> QED
  BY <1>1, <1>2

\* Comments stay where a request about something else moves.
LEMMA OthersKept ==
  ASSUME IInv, NEW r \in Requests, Leaves(r), UNCHANGED comments,
         req[r].pc # "done", req'[r].pc # "idle",
         req'[r].op \in {"share", "revoke", "view", "edit"}, req[r].op # "delete",
         shares' \subseteq ShareRows,
         \A g \in graphs' : g.id \in Requests \cup {"discovered"},
         ~There => (shares = {} => shares' = {}) /\ (graphs = {} => graphs' = {})
  PROVE  IInv'
<1>1. Drafts'
  BY DraftsKept DEF Leaves, At
<1> QED
  BY <1>1, LeavesKept DEF IInv, Types, TypeOK

LEMMA ShareKept ==
  ASSUME IInv, NEW r \in Requests, Share(r)
  PROVE  IInv'
<1> USE DEF IInv
<1>0. Leaves(r)
  BY ShareLeaves
<1>1. CASE ShareBegin(r) \/ RevokeBegin(r) \/ ViewBegin(r)
  <2>1. /\ req[r].pc = "idle" /\ req'[r].op \in {"share", "revoke", "view"}
        /\ req'[r].pc \in {"write", "count"}
        /\ UNCHANGED <<comments, shares, graphs>>
    BY <1>1 DEF ShareBegin, RevokeBegin, ViewBegin, Start, Opened, Idle, Types, children
  <2> QED
    BY <1>0, <2>1, OthersKept DEF Types, TypeOK, Life
<1>2. CASE ShareWrite(r) /\ ~Fails(r)
  <2>1. /\ At(r, "share", "write") /\ There /\ Goto(r, "done") /\ UNCHANGED <<comments, graphs>>
        /\ shares' = shares \cup {[token |-> r, views |-> 0]}
    BY <1>2 DEF ShareWrite
  <2>2. shares' \subseteq ShareRows
    BY <2>1 DEF Types, TypeOK, ShareRows
  <2>3. req'[r].pc = "done" /\ req'[r].op = "share"
    BY <2>1, Ends DEF At
  <2> QED
    BY <1>0, <2>1, <2>2, <2>3, OthersKept DEF Types, TypeOK, At
<1>3. CASE RevokeWrite(r)
  <2>1. /\ At(r, "revoke", "write") /\ Goto(r, "done") /\ UNCHANGED <<comments, graphs>>
        /\ shares' \subseteq shares
    BY <1>3 DEF RevokeWrite
  <2>2. req'[r].pc = "done" /\ req'[r].op = "revoke"
    BY <2>1, Ends DEF At
  <2> QED
    BY <1>0, <2>1, <2>2, OthersKept DEF Types, TypeOK, At
<1>4. CASE ViewCount(r) /\ ~Fails(r)
  <2> DEFINE mine == {s \in shares : s.token = req[r].key}
             Counted(s) == [s EXCEPT !.views = req[r].num + 1]
  <2>1. /\ At(r, "view", "count") /\ Goto(r, "counted") /\ UNCHANGED <<comments, graphs>>
        /\ shares' = (shares \ mine) \cup {Counted(s) : s \in mine}
    BY <1>4 DEF ViewCount
  <2>2. \A s \in shares : Counted(s) \in ShareRows
    BY DEF Types, TypeOK, ShareRows, Sessions
  <2> HIDE DEF Counted
  <2>3. shares' \subseteq ShareRows /\ (shares = {} => shares' = {})
    BY <2>1, <2>2 DEF Types, TypeOK
  <2>4. req'[r].pc = "counted" /\ req'[r].op = "view"
    BY <2>1, Ends DEF At
  <2> QED
    BY <1>0, <2>1, <2>3, <2>4, OthersKept DEF Types, TypeOK, At
<1>5. CASE ViewLoad(r)
  <2>1. PICK pc \in {"served", "notfound"} : Goto(r, pc)
    BY <1>5 DEF ViewLoad
  <2>2. At(r, "view", "counted") /\ UNCHANGED <<comments, shares, graphs>>
    BY <1>5 DEF ViewLoad, children
  <2>3. req'[r].pc = pc /\ req'[r].op = "view"
    BY <2>1, <2>2, Ends DEF At
  <2> QED
    BY <1>0, <2>2, <2>3, OthersKept DEF Types, TypeOK, At
<1> QED
  BY <1>1, <1>2, <1>3, <1>4, <1>5, FailsKept DEF Share, ShareWrite, ViewCount, At

LEMMA EditKept ==
  ASSUME IInv, NEW r \in Requests, Edit(r)
  PROVE  IInv'
<1> USE DEF IInv
<1>0. Leaves(r)
  BY EditLeaves
<1>1. CASE EditBegin(r)
  <2>1. PICK edges \in GraphEdits, p \in {None} \cup {g.id : g \in graphs}, pc \in {"refused", "write"} :
          Start(r, [Opened("edit", pc) EXCEPT !.key = p, !.rest = edges])
    BY <1>1 DEF EditBegin
  <2>2. /\ req[r].pc = "idle" /\ req'[r].op = "edit" /\ req'[r].pc = pc
        /\ UNCHANGED <<comments, shares, graphs>>
    BY <1>1, <2>1 DEF EditBegin, Start, Opened, Idle, Types, children
  <2> QED
    BY <1>0, <2>2, OthersKept DEF Types, TypeOK, Life
<1>2. CASE EditWrite(r) /\ ~Fails(r)
  <2>1. /\ At(r, "edit", "write") /\ There /\ Goto(r, "done") /\ UNCHANGED <<comments, shares>>
        /\ graphs' = graphs \cup
             {[id |-> r, parent |-> req[r].key, edges |-> req[r].rest, user |-> TRUE]}
    BY <1>2 DEF EditWrite
  <2>2. \A g \in graphs' : g.id \in Requests \cup {"discovered"}
    BY <2>1 DEF Types
  <2>3. req'[r].pc = "done" /\ req'[r].op = "edit"
    BY <2>1, Ends DEF At
  <2> QED
    BY <1>0, <2>1, <2>2, <2>3, OthersKept DEF Types, TypeOK, At
<1> QED
  BY <1>1, <1>2, FailsKept DEF Edit, EditWrite, At

-----------------------------------------------------------------------------
(* The deletion *)

LEMMA DeleteKept ==
  ASSUME IInv, NEW r \in Requests, Delete(r)
  PROVE  IInv'
<1> USE DEF IInv
<1>1. CASE DeleteBegin(r)
  <2>1. row \in {"live", "cancelled"}
    BY <1>1 DEF DeleteBegin, There
  <2> DEFINE s == [Opened("delete", "cancel") EXCEPT !.rest = row]
  <2>2. s \in Sessions /\ s.op = "delete" /\ s.pc = "cancel"
    BY <2>1 DEF Opened, Idle, Sessions, Rests
  <2>3. /\ req[r].pc = "idle" /\ req' = [req EXCEPT ![r] = s]
        /\ UNCHANGED <<row, config, creator, versions, audit, comments, shares, graphs, worker,
                       persists>>
    BY <1>1 DEF DeleteBegin, Start, children
  <2> HIDE DEF s
  <2>4. /\ req' \in [Requests -> Sessions] /\ req'[r] = s
        /\ \A q \in Requests \ {r} : req'[q] = req[q]
    BY <2>2, <2>3, SessionKept
  <2>5. Types'
    BY <2>3, <2>4 DEF Types, TypeOK, Sessions
  <2>6. Life'
    BY <2>1, <2>2, <2>3, <2>4 DEF Life, NothingOrphaned, At
  <2>7. Drafts'
    BY <2>2, <2>4, DraftsKept DEF At
  <2>8. Numbers' /\ Past' /\ Trail'
    BY <2>2, <2>3, <2>4
    DEF Numbers, NumbersContiguous, Fair, At, There, Past, ConfigInHistory, Trail, AuditTrail
  <2> QED
    BY <2>5, <2>6, <2>7, <2>8
<1>2. CASE DeleteCancel(r) /\ ~Fails(r)
  <2>1. /\ At(r, "delete", "cancel") /\ Goto(r, "remove")
        /\ There \/ req[r].rest = "cancelled"
        /\ row' = IF There THEN "cancelled" ELSE row
        /\ audit' = audit \cup {Bare("delete"), Bare("update")}
        /\ UNCHANGED <<config, creator, versions, comments, shares, graphs, worker, persists>>
    BY <1>2 DEF DeleteCancel, children
  <2>2. /\ req' \in [Requests -> Sessions] /\ req'[r] = [req[r] EXCEPT !.pc = "remove"]
        /\ \A q \in Requests \ {r} : req'[q] = req[q]
    BY <2>1, GotoKept
  <2>3. req'[r].op = "delete" /\ req'[r].pc = "remove"
    BY <2>1, <2>2 DEF At, Types, Sessions
  <2>4. /\ There' <=> There
        /\ row # "absent" /\ row' # "absent"
        /\ row' \in {"cancelled", "gone"}
    BY <2>1 DEF There, Life, At, Types, TypeOK
  <2>5. audit' \subseteq AuditRows
    BY <2>1 DEF Types, TypeOK, AuditRows, Entry, Bare
  <2>6. Types'
    BY <2>1, <2>2, <2>4, <2>5 DEF Types, TypeOK, Sessions
  <2>7. Life'
    <3>1. NothingOrphaned'
      <4>1. row' = "gone" => row = "gone"
        BY <2>1, <2>4
      <4> QED
        BY <2>1, <2>4, <4>1 DEF Life, NothingOrphaned
    <3>2. \A q \in Requests : req'[q].pc = "idle" => req'[q].op = "none"
      BY <2>2, <2>3 DEF Life
    <3>3. Bare("delete") \in audit'
      BY <2>1
    <3> QED
      BY <2>1, <2>4, <3>1, <3>2, <3>3 DEF Life
  <2>8. Drafts'
    BY <2>2, <2>3, DraftsKept DEF At
  <2>9. Numbers' /\ Past'
    BY <2>1, <2>2, <2>3, <2>4 DEF Numbers, NumbersContiguous, Fair, At, Past, ConfigInHistory
  <2>10. Trail'
    <3>1. \A a \in audit' \ audit : a.config = None
      BY <2>1 DEF Bare, Entry
    <3> QED
      BY <2>1, <2>4, <3>1, TrailKept
  <2> QED
    BY <2>6, <2>7, <2>8, <2>9, <2>10
<1>3. CASE DeleteRemove(r)
  <2>1. /\ At(r, "delete", "remove") /\ Goto(r, "done") /\ row' = "gone"
        /\ versions' = {} /\ comments' = {} /\ shares' = {} /\ graphs' = {}
        /\ UNCHANGED <<config, creator, audit, worker, persists>>
    BY <1>3 DEF DeleteRemove
  <2>2. /\ req' \in [Requests -> Sessions] /\ req'[r] = [req[r] EXCEPT !.pc = "done"]
        /\ \A q \in Requests \ {r} : req'[q] = req[q]
    BY <2>1, GotoKept
  <2>3. req'[r].op = "delete" /\ req'[r].pc = "done"
    BY <2>1, <2>2 DEF At, Types, Sessions
  <2>4. ~There' /\ row # "absent"
    BY <2>1 DEF There, Life, At
  <2>5. IsFiniteSet(versions') /\ Cardinality(versions') = 0
    BY <2>1, FS_EmptySet
  <2>6. Types'
    BY <2>1, <2>2, <2>5 DEF Types, TypeOK, Sessions
  <2>7. Life'
    <3>1. Bare("delete") \in audit'
      BY <2>1 DEF Life
    <3>2. NothingOrphaned'
      BY <2>1, <3>1 DEF NothingOrphaned
    <3>3. \A q \in Requests : req'[q].pc = "idle" => req'[q].op = "none"
      BY <2>2, <2>3 DEF Life
    <3>4. row' # "absent" /\ creator'.pc # "row"
      BY <2>1, <2>4 DEF Life
    <3> QED
      BY <3>1, <3>2, <3>3, <3>4 DEF Life
  <2>8. Numbers'
    BY <2>1, <2>4, <2>5 DEF Numbers, NumbersContiguous
  <2>9. Past' /\ Trail'
    BY <2>1, <2>2, <2>3, <2>4 DEF Past, ConfigInHistory, Trail, AuditTrail
  <2>10. Drafts'
    BY <2>2, <2>3, DraftsKept DEF At
  <2> QED
    BY <2>6, <2>7, <2>8, <2>9, <2>10
<1> QED
  BY <1>1, <1>2, <1>3, FailsKept DEF Delete, DeleteCancel, At

-----------------------------------------------------------------------------

LEMMA StepInv == IInv /\ [Next]_vars => IInv'
<1> SUFFICES ASSUME IInv, [Next]_vars PROVE IInv'
  OBVIOUS
<1>1. CASE Creation
  BY <1>1, CreationKept
<1>2. CASE Persist
  BY <1>2, PersistKept
<1>3. ASSUME NEW r \in Requests, History(r) \/ Discuss(r) \/ Share(r) \/ Edit(r) \/ Delete(r) \/ Abort(r)
      PROVE  IInv'
  <2>1. CASE Discuss(r)
    BY <2>1, CommentKept, ResolveKept, UncommentKept DEF Discuss
  <2>2. CASE Abort(r)
    BY <2>2, FailsKept DEF Abort
  <2> QED
    BY <1>3, <2>1, <2>2, HistoryKept, ShareKept, EditKept, DeleteKept
<1>4. CASE UNCHANGED vars
  <2> USE <1>4 DEF vars, IInv
  <2>1. Types' /\ Life'
    BY DEF Types, TypeOK, Life, NothingOrphaned, At, Sessions
  <2>2. Numbers' /\ Past' /\ Trail' /\ Drafts'
    BY DEF Numbers, NumbersContiguous, Fair, At, There, Past, ConfigInHistory, Trail, AuditTrail,
           Drafts
  <2> QED
    BY <2>1, <2>2
<1> QED
  BY <1>1, <1>2, <1>3, <1>4 DEF Next

LEMMA Invariance == Spec => []IInv
BY InitInv, StepInv, PTL DEF Spec

-----------------------------------------------------------------------------
(* Theorems *)

\* The types of all variables.
THEOREM RecordsTyped == Spec => []TypeOK
<1>1. IInv => TypeOK
  BY DEF IInv, Types
<1> QED
  BY <1>1, Invariance, PTL

\* The versions are numbered without a gap, although two requests may read the
\* same maximum.
THEOREM VersionsNumbered == Spec => []NumbersContiguous
<1>1. IInv => NumbersContiguous
  BY DEF IInv, Numbers
<1> QED
  BY <1>1, Invariance, PTL

\* The configuration of the analysis is one of its versions'.
THEOREM HistoryComplete == Spec => []ConfigInHistory
<1>1. IInv => ConfigInHistory
  BY DEF IInv, Past
<1> QED
  BY <1>1, Invariance, PTL

\* The audit log tells of every version but perhaps the first, by its number if
\* a snapshot or a revert made it, by its configuration if EDA did, and of
\* nothing else.
THEOREM TrailComplete == Spec => []AuditTrail
<1>1. IInv => AuditTrail
  BY DEF IInv, Trail
<1> QED
  BY <1>1, Invariance, PTL

\* Nothing outlives the analysis it belongs to, and the log says who deleted it.
THEOREM NothingLeft == Spec => []NothingOrphaned
<1>1. IInv => NothingOrphaned
  BY DEF IInv, Life
<1> QED
  BY <1>1, Invariance, PTL

\* The rows of comments and links after a step, action by action.
LEMMA OnlyInserted ==
  ASSUME IInv, Next, NEW q \in Requests, q \in Ids' \ Ids
  PROVE  req[q].pc = "write" /\ req[q].op \in {"comment", "share"}
<1>1. ASSUME NEW r \in Requests, CommentWrite(r) \/ ShareWrite(r)
      PROVE  req[q].pc = "write" /\ req[q].op \in {"comment", "share"}
  <2>1. Ids' \subseteq Ids \cup {r} /\ req[r].pc = "write" /\ req[r].op \in {"comment", "share"}
    BY <1>1 DEF CommentWrite, ShareWrite, Fails, Ids, At
  <2> QED
    BY <2>1
<1>2. ASSUME NEW r \in Requests, ResolveWrite(r)
      PROVE  FALSE
  <2> DEFINE Set(c) == [c EXCEPT !.resolved = req[r].num = 1]
  <2>1. \A c \in comments : Set(c).id = c.id
    BY DEF IInv, Types, TypeOK, CommentRows
  <2> HIDE DEF Set
  <2>2. shares' = shares /\ \A c \in comments' : c \in comments \/ \E d \in comments : c = Set(d)
    BY <1>2 DEF ResolveWrite, Fails, Set
  <2>3. Ids' \subseteq Ids
    BY <2>1, <2>2 DEF Ids
  <2> QED
    BY <2>3
<1>3. ASSUME NEW r \in Requests, ViewCount(r)
      PROVE  FALSE
  <2> DEFINE Counted(s) == [s EXCEPT !.views = req[r].num + 1]
  <2>1. \A s \in shares : Counted(s).token = s.token
    BY DEF IInv, Types, TypeOK, ShareRows
  <2> HIDE DEF Counted
  <2>2. comments' = comments /\ \A s \in shares' : s \in shares \/ \E t \in shares : s = Counted(t)
    BY <1>3 DEF ViewCount, Fails, Counted
  <2>3. Ids' \subseteq Ids
    BY <2>1, <2>2 DEF Ids
  <2> QED
    BY <2>3
<1>4. ~(comments' \subseteq comments /\ shares' \subseteq shares)
  BY DEF Ids
<1>5. ~Creation /\ ~Persist
  BY <1>4 DEF Creation, CreateRow, CreateNumber, CreateVersion, Enqueue, Persist, PersistBegin,
              PersistInPlace, PersistNumber, PersistWrite, children
<1>6. ASSUME NEW r \in Requests
      PROVE  ~History(r) /\ ~Edit(r) /\ ~Delete(r) /\ ~Abort(r)
  <2>1. ~History(r)
    BY <1>4 DEF History, SnapshotBegin, RevertBegin, Number, SnapshotWrite, RevertWrite, Fails,
                children
  <2>2. ~Edit(r) /\ ~Delete(r) /\ ~Abort(r)
    BY <1>4 DEF Edit, EditBegin, EditWrite, Delete, DeleteBegin, DeleteCancel, DeleteRemove,
                Abort, Fails, children
  <2> QED
    BY <2>1, <2>2
<1>7. ASSUME NEW r \in Requests
      PROVE  /\ Discuss(r) => CommentWrite(r) \/ ResolveWrite(r)
             /\ Share(r) => ShareWrite(r) \/ ViewCount(r)
  BY <1>4 DEF Discuss, CommentBegin, ResolveBegin, UncommentBegin, UncommentWrite, Share,
              ShareBegin, RevokeBegin, RevokeWrite, ViewBegin, ViewLoad, children
<1> QED
  BY <1>1, <1>2, <1>3, <1>5, <1>6, <1>7 DEF Next

\* A comment that was deleted and a link that was revoked do not come back through
\* a request that had loaded them before: rows appear by an insert alone
\* (comments.py:421, sharing.py:466).
THEOREM GoneForGood == Spec => RowsStayGone
<1>1. IInv /\ [Next]_vars =>
        [\A r \in Requests : r \in Ids' \ Ids =>
           req[r].pc = "write" /\ req[r].op \in {"comment", "share"}]_vars
  BY OnlyInserted
<1> QED
  BY <1>1, Invariance, PTL DEF Spec, RowsStayGone

-----------------------------------------------------------------------------
(* Views of a link *)

Shared == {r \in Requests : At(r, "share", "done")}

\* The requests that have asked for the link, but for those about to count it.
Viewers(token) == {r \in Requests : /\ req[r].op = "view" /\ req[r].key = token
                                    /\ req[r].pc \notin {"count"}}

LetIn(r) == req[r].op = "view" /\ req[r].pc \in {"counted", "served", "notfound"}

\* A link is of a request that is done. What it counts, and what those who are
\* about to count have read of it, is no more than its viewers so far.
ViewsSound ==
  /\ \A s \in shares : s.token \in Shared /\ s.views <= Cardinality(Viewers(s.token))
  /\ \A r \in Requests :
       /\ req[r].op = "view" => req[r].key \in Shared
       /\ At(r, "view", "count") => \A k : k = req[r].key => req[r].num <= Cardinality(Viewers(k))
       /\ LetIn(r) => \A s \in shares : s.token = req[r].key => s.views >= 1

\* Viewers are never fewer.
LEMMA ViewersGrow ==
  ASSUME IsFiniteSet(Requests), NEW k, Viewers(k) \subseteq Viewers(k)'
  PROVE  /\ Cardinality(Viewers(k)) \in Nat /\ Cardinality(Viewers(k)') \in Nat
         /\ Cardinality(Viewers(k)) <= Cardinality(Viewers(k)')
<1>1. IsFiniteSet(Viewers(k)) /\ IsFiniteSet(Viewers(k)')
  BY FS_Subset DEF Viewers
<1> QED
  BY <1>1, FS_CardinalityType, FS_Subset

\* A request that neither begins to view nor counts a view, and takes back no link.
Quiet(r) ==
  \/ req'[r] = req[r]
  \/ /\ req[r].pc # "done"
     /\ req[r].op = "view" => req'[r].op = "view" /\ req[r].pc # "idle"
     /\ req'[r].op = "view" => /\ req[r].op = "view" /\ req'[r].key = req[r].key
                               /\ req'[r].pc # "count"
                               /\ LetIn(r)' => LetIn(r)

LEMMA QuietKept ==
  ASSUME IsFiniteSet(Requests), IInv, ViewsSound, shares' \subseteq shares,
         \A r \in Requests : Quiet(r)
  PROVE  ViewsSound'
<1>1. Shared \subseteq Shared'
  BY DEF Shared, At, Quiet
<1>2. \A k : Viewers(k) \subseteq Viewers(k)'
  BY DEF Viewers, Quiet
<1>3. \A k : /\ Cardinality(Viewers(k)) \in Nat /\ Cardinality(Viewers(k)') \in Nat
             /\ Cardinality(Viewers(k)) <= Cardinality(Viewers(k)')
  BY <1>2, ViewersGrow
<1>4. ASSUME NEW s \in shares'
      PROVE  s.token \in Shared' /\ s.views <= Cardinality(Viewers(s.token)')
  <2>1. s \in shares /\ s.views \in Nat
    BY DEF IInv, Types, TypeOK, ShareRows
  <2>2. s.views <= Cardinality(Viewers(s.token))
    BY <2>1 DEF ViewsSound
  <2> QED
    BY <1>1, <1>3, <2>1, <2>2 DEF ViewsSound
<1>5. ASSUME NEW r \in Requests
      PROVE  /\ req'[r].op = "view" => req'[r].key \in Shared'
             /\ At(r, "view", "count")' =>
                  \A k : k = req'[r].key => req'[r].num <= Cardinality(Viewers(k)')
             /\ LetIn(r)' => \A s \in shares' : s.token = req'[r].key => s.views >= 1
  <2>1. Quiet(r)
    OBVIOUS
  <2>2. req'[r].op = "view" => req[r].op = "view" /\ req'[r].key = req[r].key
    BY <2>1 DEF Quiet
  <2>3. At(r, "view", "count")' => At(r, "view", "count") /\ req'[r] = req[r]
    BY <2>1 DEF Quiet, At
  <2>4. LetIn(r)' => LetIn(r) /\ req'[r].key = req[r].key
    BY <2>1 DEF Quiet, LetIn
  <2>5. req[r].num \in Nat
    BY DEF IInv, Types, Sessions
  <2> QED
    BY <1>1, <1>3, <2>2, <2>3, <2>4, <2>5 DEF ViewsSound
<1> QED
  BY <1>4, <1>5 DEF ViewsSound

\* A request that goes on to something else than a view.
LEMMA GoesOn ==
  ASSUME IInv, NEW r \in Requests,
         \A q \in Requests \ {r} : req'[q] = req[q],
         req[r].pc # "done",
         \/ req[r].op # "view" /\ req'[r].op # "view"
         \/ /\ req'[r] = [req[r] EXCEPT !.pc = "failed"] /\ req[r].pc # "idle"
         \/ /\ req[r].pc = "counted" /\ req[r].op = "view"
            /\ req'[r].op = req[r].op /\ req'[r].key = req[r].key
            /\ req'[r].pc \in {"served", "notfound"}
  PROVE  \A q \in Requests : Quiet(q)
<1>1. CASE req'[r] = [req[r] EXCEPT !.pc = "failed"] /\ req[r].pc # "idle"
  <2>1. req'[r].pc = "failed" /\ req'[r].op = req[r].op /\ req'[r].key = req[r].key
    BY <1>1 DEF IInv, Types, Sessions
  <2> QED
    BY <1>1, <2>1 DEF Quiet, LetIn
<1> QED
  BY <1>1 DEF Quiet, LetIn

\* A link is shared, asked for, or counted; anything else is quiet.
LEMMA ViewSteps ==
  ASSUME IInv, Next
  PROVE  \/ shares' \subseteq shares /\ \A q \in Requests : Quiet(q)
         \/ \E r \in Requests : \/ ShareWrite(r) /\ ~Fails(r)
                                \/ ViewBegin(r)
                                \/ ViewCount(r) /\ ~Fails(r)
<1> USE DEF IInv
<1>1. CASE Creation \/ Persist
  BY <1>1 DEF Creation, CreateRow, CreateNumber, CreateVersion, Enqueue, Persist, PersistBegin,
              PersistInPlace, PersistNumber, PersistWrite, children, Quiet
<1>2. ASSUME NEW r \in Requests, NEW s, Start(r, s), s.op # "view"
      PROVE  \A q \in Requests : Quiet(q)
  BY <1>2, GoesOn DEF Start, Types, Life
<1>3. ASSUME NEW r \in Requests, Fails(r), req[r].pc \notin {"idle", "done"}
      PROVE  shares' \subseteq shares /\ \A q \in Requests : Quiet(q)
  <2>1. Leaves(r) /\ req'[r] = [req[r] EXCEPT !.pc = "failed"]
    BY <1>3, FailsLeaves
  <2> QED
    BY <1>3, <2>1, GoesOn DEF Fails, Leaves
<1>4. ASSUME NEW r \in Requests, req[r].op # "view", req[r].pc # "done",
             \E pc \in {"done", "remove"} : Goto(r, pc)
      PROVE  \A q \in Requests : Quiet(q)
  <2>1. PICK pc \in {"done", "remove"} : Goto(r, pc)
    BY <1>4
  <2>2. /\ req'[r] = [req[r] EXCEPT !.pc = pc]
        /\ \A q \in Requests \ {r} : req'[q] = req[q]
    BY <2>1, GotoKept
  <2>3. req'[r].op = req[r].op
    BY <2>2 DEF Types, Sessions
  <2> QED
    BY <1>4, <2>2, <2>3, GoesOn
<1>5. ASSUME NEW r \in Requests, Discuss(r) \/ Edit(r) \/ Delete(r)
      PROVE  shares' \subseteq shares /\ \A q \in Requests : Quiet(q)
  <2>1. CASE CommentBegin(r) \/ ResolveBegin(r) \/ UncommentBegin(r) \/ EditBegin(r) \/ DeleteBegin(r)
    BY <1>2, <2>1 DEF CommentBegin, ResolveBegin, UncommentBegin, EditBegin, DeleteBegin, Opened,
                      Idle, children
  <2>2. CASE CommentWrite(r) \/ ResolveWrite(r) \/ UncommentWrite(r) \/ EditWrite(r)
               \/ DeleteCancel(r) \/ DeleteRemove(r)
    BY <1>3, <1>4, <2>2 DEF CommentWrite, ResolveWrite, UncommentWrite, EditWrite, DeleteCancel,
                            DeleteRemove, At, children
  <2> QED
    BY <1>5, <2>1, <2>2 DEF Discuss, Edit, Delete
<1>6. ASSUME NEW r \in Requests, History(r)
      PROVE  shares' \subseteq shares /\ \A q \in Requests : Quiet(q)
  <2>1. CASE SnapshotBegin(r) \/ RevertBegin(r)
    BY <1>2, <2>1 DEF SnapshotBegin, RevertBegin, Opened, Idle, children
  <2>2. CASE SnapshotWrite(r) \/ RevertWrite(r)
    BY <1>3, <1>4, <2>2 DEF SnapshotWrite, RevertWrite, At
  <2>3. CASE Number(r)
    <3>1. req[r].pc = "number" /\ req[r].op # "view" /\ shares' = shares
      BY <2>3 DEF Number, At, children
    <3>2. req'[r].op = req[r].op /\ \A q \in Requests \ {r} : req'[q] = req[q]
      BY <2>3 DEF Number, Types, Sessions
    <3> QED
      BY <3>1, <3>2, GoesOn
  <2> QED
    BY <1>6, <2>1, <2>2, <2>3 DEF History
<1>7. ASSUME NEW r \in Requests, Share(r), ~ViewBegin(r), ~ShareWrite(r) \/ Fails(r),
             ~ViewCount(r) \/ Fails(r)
      PROVE  shares' \subseteq shares /\ \A q \in Requests : Quiet(q)
  <2>1. CASE ShareBegin(r) \/ RevokeBegin(r)
    BY <1>2, <2>1 DEF ShareBegin, RevokeBegin, Opened, Idle, children
  <2>2. CASE ShareWrite(r) \/ ViewCount(r)
    BY <1>3, <1>7, <2>2 DEF ShareWrite, ViewCount, At
  <2>3. CASE RevokeWrite(r)
    BY <1>4, <2>3 DEF RevokeWrite, At
  <2>4. CASE ViewLoad(r)
    <3>1. PICK pc \in {"served", "notfound"} : Goto(r, pc)
      BY <2>4 DEF ViewLoad
    <3>2. /\ req'[r].pc = pc /\ req'[r].op = req[r].op /\ req'[r].key = req[r].key
          /\ \A q \in Requests \ {r} : req'[q] = req[q]
      BY <3>1, Ends
    <3>3. req[r].op = "view" /\ req[r].pc = "counted" /\ shares' = shares
      BY <2>4 DEF ViewLoad, At, children
    <3> QED
      BY <3>2, <3>3, GoesOn
  <2> QED
    BY <1>7, <2>1, <2>2, <2>3, <2>4 DEF Share
<1>8. ASSUME NEW r \in Requests, Abort(r)
      PROVE  shares' \subseteq shares /\ \A q \in Requests : Quiet(q)
  BY <1>3, <1>8 DEF Abort
<1> QED
  BY <1>1, <1>5, <1>6, <1>7, <1>8 DEF Next

LEMMA ShareCounts ==
  ASSUME IsFiniteSet(Requests), IInv, ViewsSound, NEW r \in Requests,
         ShareWrite(r), ~Fails(r)
  PROVE  ViewsSound'
<1> DEFINE new == [token |-> r, views |-> 0]
<1>1. At(r, "share", "write") /\ Goto(r, "done") /\ shares' = shares \cup {new}
  BY DEF ShareWrite
<1>2. req'[r].op = "share" /\ req'[r].pc = "done" /\ \A q \in Requests \ {r} : req'[q] = req[q]
  BY <1>1, Ends DEF At
<1>3. Shared' = Shared \cup {r} /\ r \notin Shared
  BY <1>1, <1>2 DEF Shared, At
<1>4. \A k : Viewers(k)' = Viewers(k)
  BY <1>1, <1>2 DEF Viewers, At
<1>5. \A k : Cardinality(Viewers(k)) \in Nat
  BY <1>4, ViewersGrow
<1>6. new.token = r /\ new.views = 0
  OBVIOUS
<1> HIDE DEF new
<1>7. \A s \in shares' : s.token \in Shared' /\ s.views <= Cardinality(Viewers(s.token)')
  BY <1>1, <1>3, <1>4, <1>5, <1>6 DEF ViewsSound
<1>8. \A q \in Requests : /\ At(q, "view", "count")' => At(q, "view", "count") /\ req'[q] = req[q]
                          /\ LetIn(q)' => LetIn(q) /\ req'[q] = req[q]
                          /\ req'[q].op = "view" => req'[q] = req[q]
  BY <1>2 DEF At, LetIn
<1>9. \A q \in Requests : LetIn(q)' => \A s \in shares' : s.token = req'[q].key => s.views >= 1
  BY <1>1, <1>3, <1>6, <1>8 DEF ViewsSound, LetIn
<1> QED
  BY <1>3, <1>4, <1>7, <1>8, <1>9 DEF ViewsSound

LEMMA BeginCounts ==
  ASSUME IsFiniteSet(Requests), IInv, ViewsSound, NEW r \in Requests, ViewBegin(r)
  PROVE  ViewsSound'
<1>1. PICK s \in shares :
        Start(r, [Opened("view", "count") EXCEPT !.num = s.views, !.key = s.token])
  BY DEF ViewBegin
<1>2. /\ req[r].op = "none" /\ req[r].pc = "idle" /\ UNCHANGED shares
      /\ req'[r].op = "view" /\ req'[r].pc = "count"
      /\ req'[r].num = s.views /\ req'[r].key = s.token
      /\ \A q \in Requests \ {r} : req'[q] = req[q]
  BY <1>1 DEF ViewBegin, Start, Opened, Idle, children, IInv, Types, Life
<1>3. Shared' = Shared /\ \A k : Viewers(k)' = Viewers(k)
  BY <1>2 DEF Shared, Viewers, At
<1>4. /\ req'[r].key \in Shared' /\ req'[r].num <= Cardinality(Viewers(s.token))
      /\ ~LetIn(r)'
  BY <1>2, <1>3 DEF ViewsSound, LetIn
<1>5. \A q \in Requests \ {r} : /\ At(q, "view", "count")' <=> At(q, "view", "count")
                                /\ LetIn(q)' <=> LetIn(q)
  BY <1>2 DEF At, LetIn
<1>6. \A q \in Requests :
        /\ req'[q].op = "view" => req'[q].key \in Shared'
        /\ LetIn(q)' => \A x \in shares' : x.token = req'[q].key => x.views >= 1
  BY <1>2, <1>3, <1>4, <1>5 DEF ViewsSound
<1>7. \A q \in Requests : At(q, "view", "count")' =>
        \A k : k = req'[q].key => req'[q].num <= Cardinality(Viewers(k)')
  BY <1>2, <1>3, <1>4, <1>5 DEF ViewsSound
<1>8. \A x \in shares' : x.token \in Shared' /\ x.views <= Cardinality(Viewers(x.token)')
  BY <1>2, <1>3 DEF ViewsSound
<1> QED
  BY <1>3, <1>6, <1>7, <1>8 DEF ViewsSound

LEMMA ViewCounts ==
  ASSUME IsFiniteSet(Requests), IInv, ViewsSound, NEW r \in Requests,
         ViewCount(r), ~Fails(r)
  PROVE  ViewsSound'
<1>0. PICK k : k = req[r].key
  OBVIOUS
<1> DEFINE mine == {s \in shares : s.token = k}
           Counted(s) == [s EXCEPT !.views = req[r].num + 1]
<1>1. /\ At(r, "view", "count") /\ Goto(r, "counted")
      /\ shares' = (shares \ mine) \cup {Counted(s) : s \in mine}
  BY <1>0 DEF ViewCount
<1>2. /\ req'[r].op = "view" /\ req'[r].pc = "counted" /\ req'[r].key = k
      /\ \A q \in Requests \ {r} : req'[q] = req[q]
  BY <1>0, <1>1, Ends DEF At
<1>3. req[r].num \in Nat
  BY DEF IInv, Types, Sessions
<1>4. \A s \in mine : Counted(s).token = k /\ Counted(s).views = req[r].num + 1
  BY DEF IInv, Types, TypeOK, ShareRows
<1> HIDE DEF Counted
<1>5. Shared \subseteq Shared'
  BY <1>1, <1>2 DEF Shared, At
<1>6. /\ \A t : Viewers(t) \subseteq Viewers(t)'
      /\ Viewers(k)' = Viewers(k) \cup {r} /\ r \notin Viewers(k)
  BY <1>0, <1>1, <1>2 DEF Viewers, At
<1>7. \A t : /\ Cardinality(Viewers(t)) \in Nat /\ Cardinality(Viewers(t)') \in Nat
             /\ Cardinality(Viewers(t)) <= Cardinality(Viewers(t)')
  BY <1>6, ViewersGrow
<1>8. Cardinality(Viewers(k)') = Cardinality(Viewers(k)) + 1
  <2>1. IsFiniteSet(Viewers(k))
    BY FS_Subset DEF Viewers
  <2> QED
    BY <1>6, <2>1, FS_AddElement
<1>9. req[r].num <= Cardinality(Viewers(k)) /\ k \in Shared
  BY <1>0, <1>1 DEF ViewsSound, At
<1>10. ASSUME NEW s \in shares'
       PROVE  s.token \in Shared' /\ s.views <= Cardinality(Viewers(s.token)')
  <2>1. CASE s \in shares \ mine
    <3>1. s.views <= Cardinality(Viewers(s.token)) /\ s.views \in Nat /\ s.token \in Shared
      BY <2>1 DEF ViewsSound, IInv, Types, TypeOK, ShareRows
    <3> QED
      BY <1>5, <1>7, <3>1
  <2>2. CASE s \in {Counted(x) : x \in mine}
    <3>1. s.token = k /\ s.views = req[r].num + 1
      BY <1>4, <2>2
    <3>2. s.views <= Cardinality(Viewers(k)')
      BY <1>3, <1>7, <1>8, <1>9, <3>1
    <3> QED
      BY <1>5, <1>9, <3>1, <3>2
  <2> QED
    BY <1>1, <2>1, <2>2
<1>11. ASSUME NEW q \in Requests
       PROVE  /\ req'[q].op = "view" => req'[q].key \in Shared'
              /\ At(q, "view", "count")' =>
                   \A t : t = req'[q].key => req'[q].num <= Cardinality(Viewers(t)')
              /\ LetIn(q)' => \A s \in shares' : s.token = req'[q].key => s.views >= 1
  <2>1. CASE q = r
    <3>1. \A s \in shares' : s.token = k => s.views >= 1
      BY <1>1, <1>3, <1>4
    <3> QED
      BY <1>2, <1>5, <1>9, <2>1, <3>1 DEF At
  <2>2. CASE q # r
    <3>1. req'[q] = req[q] /\ req[q].num \in Nat
      BY <1>2, <2>2 DEF IInv, Types, Sessions
    <3>2. LetIn(q) => \A s \in shares : s.token = req[q].key => s.views >= 1
      BY DEF ViewsSound
    <3>3. LetIn(q) => \A s \in shares' : s.token = req[q].key => s.views >= 1
      BY <1>1, <1>3, <1>4, <3>2
    <3>4. At(q, "view", "count") =>
            \A t : t = req[q].key => req[q].num <= Cardinality(Viewers(t)')
      BY <1>7, <3>1 DEF ViewsSound
    <3>5. (LetIn(q)' <=> LetIn(q)) /\ (At(q, "view", "count")' <=> At(q, "view", "count"))
      BY <3>1 DEF LetIn, At
    <3> QED
      BY <1>5, <3>1, <3>3, <3>4, <3>5 DEF ViewsSound
  <2> QED
    BY <2>1, <2>2
<1> QED
  BY <1>10, <1>11 DEF ViewsSound

LEMMA ViewsStep ==
  ASSUME IsFiniteSet(Requests), IInv, ViewsSound, [Next]_vars
  PROVE  ViewsSound'
<1>1. CASE Next
  BY <1>1, ViewSteps, QuietKept, ShareCounts, BeginCounts, ViewCounts
<1>2. CASE UNCHANGED vars
  BY <1>2, QuietKept DEF vars, Quiet
<1> QED
  BY <1>1, <1>2

\* No link counts more views than were let through or failed at it, and none that
\* was viewed counts nothing, of finitely many requests.
THEOREM ViewsCountedUp ==
  ASSUME IsFiniteSet(Requests)
  PROVE  Spec => []ViewsCounted
<1>1. Init => ViewsSound
  BY DEF Init, ViewsSound, Idle, At, LetIn
<1>2. IInv /\ ViewsSound /\ [Next]_vars => ViewsSound'
  BY ViewsStep
<1>3. ASSUME IInv, ViewsSound PROVE ViewsCounted
  <2> SUFFICES ASSUME NEW s \in shares
               PROVE  /\ s.views <= Cardinality(Viewers(s.token))
                      /\ \A r \in Viewers(s.token) :
                           req[r].pc \in {"counted", "served", "notfound"} => s.views >= 1
    BY DEF ViewsCounted, Viewers
  <2> QED
    BY <1>3 DEF ViewsSound, Viewers, LetIn
<1> QED
  BY <1>1, <1>2, <1>3, Invariance, PTL DEF Spec


-----------------------------------------------------------------------------
(* Loops and recursion, by induction over a set of numbers (an operator cannot *)
(* be instantiated)                                                            *)

\* A set that has 0, and with each number the next, has every number.
LEMMA Induction ==
  ASSUME NEW T, 0 \in T, \A n \in Nat : n \in T => n + 1 \in T
  PROVE  \A n \in Nat : n \in T
<1> SUFFICES ASSUME Nat \ T # {} PROVE FALSE
  OBVIOUS
<1> DEFINE R == OpToRel(<, Nat)
<1>1. IsWellFoundedOn(R, Nat)
  BY NatLessThanWellFounded
<1>2. \A x, y \in Nat : y < x => <<y, x>> \in R
  BY DEF OpToRel
<1> HIDE DEF R
<1>3. PICK x \in Nat \ T : \A y \in Nat \ T : <<y, x>> \notin R
  BY <1>1, WFMin
<1>4. x \in Nat /\ x # 0 /\ x - 1 \in Nat
  OBVIOUS
<1>5. x - 1 \in T
  <2> SUFFICES ASSUME x - 1 \notin T PROVE FALSE
    OBVIOUS
  <2>1. <<x - 1, x>> \in R
    BY <1>2, <1>4
  <2> QED
    BY <1>3, <1>4, <2>1
<1> QED
  BY <1>4, <1>5

\* The equation of the function in Folded.
FoldedUpTo(step, base, seq, n, g) ==
  g = [i \in 0..n |-> IF i = 0 THEN base ELSE step[g[i - 1]][seq[i]]]

LEMMA FoldDefined ==
  ASSUME NEW step, NEW base, NEW seq, Len(seq) \in Nat
  PROVE  \E g : FoldedUpTo(step, base, seq, Len(seq), g) /\ Folded(step, base, seq) = g[Len(seq)]
<1> DEFINE T == {n \in Nat : \E g : FoldedUpTo(step, base, seq, n, g)}
<1>1. 0 \in T
  <2>1. FoldedUpTo(step, base, seq, 0, [i \in 0..0 |-> base])
    BY DEF FoldedUpTo
  <2> QED
    BY <2>1
<1>2. ASSUME NEW n \in Nat, n \in T PROVE n + 1 \in T
  <2>1. PICK g : FoldedUpTo(step, base, seq, n, g)
    BY <1>2
  <2> DEFINE last == step[g[n]][seq[n + 1]]
             h == [i \in 0..(n + 1) |-> IF i = n + 1 THEN last ELSE g[i]]
  <2>2. \A i \in 0..n : g[i] = IF i = 0 THEN base ELSE step[g[i - 1]][seq[i]]
    BY <2>1 DEF FoldedUpTo
  <2>3. h[n + 1] = last /\ \A i \in 0..n : h[i] = g[i]
    OBVIOUS
  <2>4. ASSUME NEW i \in 0..(n + 1)
        PROVE  h[i] = IF i = 0 THEN base ELSE step[h[i - 1]][seq[i]]
    <3>1. CASE i = n + 1
      <4>1. i # 0 /\ i - 1 = n /\ h[i - 1] = g[n]
        BY <2>3, <3>1
      <4> HIDE DEF h
      <4> QED
        BY <2>3, <3>1, <4>1
    <3>2. CASE i = 0
      BY <2>2, <2>3, <3>2
    <3>3. CASE i # 0 /\ i # n + 1
      <4>1. i \in 0..n /\ i - 1 \in 0..n
        BY <3>3
      <4> HIDE DEF h
      <4> QED
        BY <2>2, <2>3, <3>3, <4>1
    <3> QED
      BY <3>1, <3>2, <3>3
  <2>5. h = [i \in 0..(n + 1) |-> h[i]]
    OBVIOUS
  <2> HIDE DEF h
  <2>6. FoldedUpTo(step, base, seq, n + 1, h)
    BY <2>4, <2>5 DEF FoldedUpTo
  <2> QED
    BY <2>6
<1>3. \A n \in Nat : n \in T
  <2> HIDE DEF T
  <2> QED
    BY <1>1, <1>2, Induction
<1>4. \E g : FoldedUpTo(step, base, seq, Len(seq), g)
  BY <1>3
<1> DEFINE f == CHOOSE g : FoldedUpTo(step, base, seq, Len(seq), g)
<1>5. FoldedUpTo(step, base, seq, Len(seq), f)
  BY <1>4
<1>6. Folded(step, base, seq) = f[Len(seq)]
  BY DEF Folded, FoldedUpTo
<1> QED
  BY <1>5, <1>6

\* A loop whose i-th step leads from T[i - 1] to T[i].
LEMMA FoldSteps ==
  ASSUME NEW step, NEW base, NEW seq, Len(seq) \in Nat, NEW T, base \in T[0],
         \A i \in 1..Len(seq) : \A s \in T[i - 1] : step[s][seq[i]] \in T[i]
  PROVE  Folded(step, base, seq) \in T[Len(seq)]
<1>1. PICK g : FoldedUpTo(step, base, seq, Len(seq), g) /\ Folded(step, base, seq) = g[Len(seq)]
  BY FoldDefined
<1>2. \A i \in 0..Len(seq) : g[i] = IF i = 0 THEN base ELSE step[g[i - 1]][seq[i]]
  BY <1>1 DEF FoldedUpTo
<1> DEFINE R == {n \in Nat : n <= Len(seq) => g[n] \in T[n]}
<1>3. 0 \in R
  BY <1>2
<1>4. ASSUME NEW n \in Nat, n \in R PROVE n + 1 \in R
  <2> SUFFICES ASSUME n + 1 <= Len(seq) PROVE g[n + 1] \in T[n + 1]
    OBVIOUS
  <2>1. n + 1 \in 0..Len(seq) /\ n + 1 \in 1..Len(seq) /\ n + 1 # 0 /\ (n + 1) - 1 = n
    OBVIOUS
  <2>2. g[n] \in T[n]
    BY <1>4, <2>1
  <2>3. g[n + 1] = step[g[n]][seq[n + 1]]
    BY <1>2, <2>1
  <2>4. step[g[n]][seq[n + 1]] \in T[n + 1]
    BY <2>1, <2>2
  <2> QED
    BY <2>3, <2>4
<1>5. \A n \in Nat : n \in R
  <2> HIDE DEF R
  <2> QED
    BY <1>3, <1>4, Induction
<1> QED
  BY <1>1, <1>5

-----------------------------------------------------------------------------
(* The search for a cycle finds one exactly if there is one                  *)

\* An edge list that a user sends.
EdgeList(edges) == /\ edges \in Seq(Nodes(edges) \X Nodes(edges))
                   /\ \A S \in SUBSET Nodes(edges) : S # None

Circular(edges) == \E x \in Nodes(edges) : x \in Reach(edges, x)

LEMMA NodesFinite ==
  ASSUME NEW edges, EdgeList(edges)
  PROVE  IsFiniteSet(Nodes(edges)) /\ Cardinality(Nodes(edges)) \in Nat
<1> DEFINE sources == {edges[i][1] : i \in 1..Len(edges)}
           targets == {edges[i][2] : i \in 1..Len(edges)}
<1>1. Len(edges) \in Nat /\ DOMAIN edges = 1..Len(edges)
  BY DEF EdgeList
<1>2. IsFiniteSet(1..Len(edges))
  BY <1>1, FS_Interval
<1>3. [i \in 1..Len(edges) |-> edges[i][1]] \in Surjection(1..Len(edges), sources)
  BY DEF Surjection
<1>4. [i \in 1..Len(edges) |-> edges[i][2]] \in Surjection(1..Len(edges), targets)
  BY DEF Surjection
<1>5. IsFiniteSet(sources)
  BY <1>2, <1>3, FS_Surjection
<1>6. IsFiniteSet(targets)
  BY <1>2, <1>4, FS_Surjection
<1>7. IsFiniteSet(sources \cup targets)
  <2> HIDE DEF sources, targets
  <2> QED
    BY <1>5, <1>6, FS_Union
<1>8. Nodes(edges) = sources \cup targets
  BY <1>1 DEF Nodes
<1> QED
  BY <1>7, <1>8, FS_CardinalityType

\* The successors of a node are reached from it, and from whatever reaches it.
LEMMA SuccessorReached ==
  ASSUME NEW edges, EdgeList(edges), NEW i \in 1..Len(edges)
  PROVE  /\ edges[i] \in Nodes(edges) \X Nodes(edges)
         /\ edges[i][2] \in Reach(edges, edges[i][1])
         /\ \A x \in Nodes(edges) :
              edges[i][1] \in Reach(edges, x) => edges[i][2] \in Reach(edges, x)
<1> DEFINE n == edges[i][1]
           m == edges[i][2]
<1>1. edges[i] \in Nodes(edges) \X Nodes(edges) /\ DOMAIN edges = 1..Len(edges)
  BY DEF EdgeList
<1>2. n \in Nodes(edges) /\ m \in Nodes(edges)
  BY <1>1
<1>3. m \in Successors(edges, n)
  BY <1>1 DEF Successors
<1>4. m \in Reach(edges, n)
  BY <1>2, <1>3 DEF Reach
<1>5. ASSUME NEW x \in Nodes(edges), n \in Reach(edges, x) PROVE m \in Reach(edges, x)
  BY <1>2, <1>3, <1>5 DEF Reach, ClosedUnder
<1> QED
  BY <1>1, <1>4, <1>5

-----------------------------------------------------------------------------
\* The levels of dfs.
Level(edges, k, below) ==
  [n \in Nodes(edges) |-> [seen \in SUBSET Nodes(edges) |-> [stack \in SUBSET Nodes(edges) |->
     IF k = 0 THEN seen
     ELSE Folded(Visit(edges, below, n, stack), seen \cup {n}, edges)]]]

SearchedTo(edges, n, d) == d = [k \in 0..n |-> Level(edges, k, d[k - 1])]

Rooted(edges, d) ==
  [s \in Seen(edges) |-> [n \in Nodes(edges) |->
     IF s = None \/ n \in s THEN s ELSE d[Cardinality(Nodes(edges))][n][s][{}]]]

LEMMA SearchDefined ==
  ASSUME NEW edges, Cardinality(Nodes(edges)) \in Nat
  PROVE  \E d : /\ SearchedTo(edges, Cardinality(Nodes(edges)), d)
                /\ HasCycle(edges) <=>
                     Folded(Rooted(edges, d), {}, SetToSeq(Nodes(edges))) = None
<1> DEFINE T == {n \in Nat : \E d : SearchedTo(edges, n, d)}
           size == Cardinality(Nodes(edges))
<1>0. \A a, b : Level(edges, 0, a) = Level(edges, 0, b)
  BY DEF Level
<1>1. 0 \in T
  <2> DEFINE h == [k \in 0..0 |-> Level(edges, 0, None)]
  <2>1. h = [k \in 0..0 |-> Level(edges, k, h[k - 1])]
    <3>1. \A k \in 0..0 : k = 0
      OBVIOUS
    <3>2. ASSUME NEW k \in 0..0 PROVE Level(edges, 0, None) = Level(edges, k, h[k - 1])
      BY <1>0, <3>1
    <3> QED
      BY <3>2
  <2> QED
    BY <2>1 DEF SearchedTo
<1>2. ASSUME NEW n \in Nat, n \in T PROVE n + 1 \in T
  <2>1. PICK g : SearchedTo(edges, n, g)
    BY <1>2
  <2> DEFINE last == Level(edges, n + 1, g[n])
             h == [k \in 0..(n + 1) |-> IF k = n + 1 THEN last ELSE g[k]]
  <2> HIDE DEF last
  <2>2. \A k \in 0..n : g[k] = Level(edges, k, g[k - 1])
    BY <2>1 DEF SearchedTo
  <2>3. h[n + 1] = last /\ \A k \in 0..n : h[k] = g[k]
    OBVIOUS
  <2>4. ASSUME NEW k \in 0..(n + 1) PROVE h[k] = Level(edges, k, h[k - 1])
    <3>1. CASE k = n + 1
      <4>1. k - 1 = n /\ h[k - 1] = g[n]
        BY <2>3, <3>1
      <4> HIDE DEF h
      <4> QED
        BY <2>3, <3>1, <4>1 DEF last
    <3>2. CASE k = 0
      <4>1. h[0] = Level(edges, 0, g[0 - 1])
        BY <2>2, <2>3
      <4> HIDE DEF h
      <4> QED
        BY <1>0, <3>2, <4>1
    <3>3. CASE k # 0 /\ k # n + 1
      <4>1. k \in 0..n /\ k - 1 \in 0..n
        BY <3>3
      <4> HIDE DEF h
      <4> QED
        BY <2>2, <2>3, <4>1
    <3> QED
      BY <3>1, <3>2, <3>3
  <2>5. h = [k \in 0..(n + 1) |-> h[k]]
    OBVIOUS
  <2> HIDE DEF h
  <2>6. SearchedTo(edges, n + 1, h)
    BY <2>4, <2>5 DEF SearchedTo
  <2> QED
    BY <2>6
<1>3. \A n \in Nat : n \in T
  <2> HIDE DEF T
  <2> QED
    BY <1>1, <1>2, Induction
<1>4. \E d : SearchedTo(edges, size, d)
  BY <1>3
<1> DEFINE f == CHOOSE d : SearchedTo(edges, size, d)
<1>5. SearchedTo(edges, size, f)
  BY <1>4
<1>6. HasCycle(edges) <=> Folded(Rooted(edges, f), {}, SetToSeq(Nodes(edges))) = None
  BY DEF HasCycle, SearchedTo, Level, Rooted
<1> QED
  BY <1>5, <1>6

-----------------------------------------------------------------------------
\* What is seen and not on the stack is finished: it leads only to what is
\* finished as well, and does not reach itself.
Finished(edges, seen, stack) ==
  /\ seen \subseteq Nodes(edges) /\ stack \subseteq seen
  /\ ClosedUnder(edges, seen \ stack)
  /\ \A x \in seen \ stack : x \notin Reach(edges, x)

\* What dfs of n may return: None only of a graph with a cycle.
Outcomes(edges, seen, stack, n) ==
  (IF Circular(edges) THEN {None} ELSE {}) \cup
  {s \in SUBSET Nodes(edges) : seen \cup {n} \subseteq s /\ Finished(edges, s, stack)}

\* What the loop over the first i edges may leave.
Along(edges, seen, stack, n, i) ==
  (IF Circular(edges) THEN {None} ELSE {}) \cup
  {s \in SUBSET Nodes(edges) :
     /\ seen \subseteq s /\ Finished(edges, s, stack)
     /\ \A j \in 1..i : edges[j][1] = n => edges[j][2] \in s \ stack}

\* dfs, where at most k nodes are not seen and those on the stack lead to n.
Correct(edges, k, dfs) ==
  \A n \in Nodes(edges), seen \in SUBSET Nodes(edges), stack \in SUBSET Nodes(edges) :
    /\ n \notin seen /\ Finished(edges, seen, stack)
    /\ \A x \in stack : n \in Reach(edges, x)
    /\ Cardinality(Nodes(edges) \ seen) <= k
    => dfs[n][seen][stack] \in Outcomes(edges, seen, stack, n)

\* One edge of the node that dfs is at.
LEMMA EdgeVisited ==
  ASSUME NEW edges, EdgeList(edges), NEW k \in Nat, NEW below, Correct(edges, k, below),
         NEW n \in Nodes(edges), NEW seen \in SUBSET Nodes(edges),
         NEW stack \in SUBSET Nodes(edges), n \in seen, n \notin stack,
         \A x \in stack : n \in Reach(edges, x), Cardinality(Nodes(edges) \ seen) <= k,
         NEW i \in 1..Len(edges), NEW s \in Along(edges, seen, stack \cup {n}, n, i - 1)
  PROVE  Visit(edges, below, n, stack)[s][edges[i]] \in Along(edges, seen, stack \cup {n}, n, i)
<1> DEFINE st == stack \cup {n}
           e  == edges[i]
           v  == Visit(edges, below, n, stack)[s][e]
<1> SUFFICES v \in Along(edges, seen, st, n, i)
  OBVIOUS
<1>1. /\ e \in Nodes(edges) \X Nodes(edges) /\ e[2] \in Nodes(edges)
      /\ e[2] \in Reach(edges, e[1])
      /\ \A x \in Nodes(edges) : e[1] \in Reach(edges, x) => e[2] \in Reach(edges, x)
  BY SuccessorReached
<1>2. s \in Seen(edges)
  BY DEF Along, Seen
<1>3. v = IF s = None \/ e[1] # n THEN s
          ELSE IF e[2] \notin s THEN below[e[2]][s][st]
          ELSE IF e[2] \in st THEN None ELSE s
  BY <1>1, <1>2 DEF Visit
<1>4. \A j \in 1..i : j \in 1..(i - 1) \/ j = i
  OBVIOUS
<1>5. None \notin SUBSET Nodes(edges)
  BY DEF EdgeList
<1> HIDE DEF v
<1>6. CASE s = None
  BY <1>3, <1>5, <1>6 DEF Along
<1>7. CASE s # None /\ e[1] # n
  BY <1>3, <1>4, <1>7 DEF Along
<1>8. CASE s # None /\ e[1] = n /\ e[2] \notin s
  <2>1. /\ s \in SUBSET Nodes(edges) /\ seen \subseteq s /\ Finished(edges, s, st)
        /\ \A j \in 1..(i - 1) : edges[j][1] = n => edges[j][2] \in s \ st
    BY <1>8 DEF Along
  <2>2. \A x \in st : e[2] \in Reach(edges, x)
    BY <1>1, <1>8
  <2>3. Cardinality(Nodes(edges) \ s) <= k
    <3>1. IsFiniteSet(Nodes(edges) \ seen)
      BY NodesFinite, FS_Subset
    <3>2. /\ Cardinality(Nodes(edges) \ s) <= Cardinality(Nodes(edges) \ seen)
          /\ IsFiniteSet(Nodes(edges) \ s)
      BY <2>1, <3>1, FS_Subset
    <3>3. Cardinality(Nodes(edges) \ s) \in Nat /\ Cardinality(Nodes(edges) \ seen) \in Nat
      BY <3>1, <3>2, FS_CardinalityType
    <3> QED
      BY <3>2, <3>3
  <2>4. st \in SUBSET Nodes(edges)
    OBVIOUS
  <2> HIDE DEF st
  <2>5. v \in Outcomes(edges, s, st, e[2])
    BY <1>1, <1>3, <1>8, <2>1, <2>2, <2>3, <2>4 DEF Correct
  <2>6. CASE v = None /\ Circular(edges)
    BY <2>6 DEF Along
  <2>7. CASE v \in SUBSET Nodes(edges) /\ s \cup {e[2]} \subseteq v /\ Finished(edges, v, st)
    <3>1. e[2] \in v \ st /\ s \ st \subseteq v \ st /\ seen \subseteq v
      BY <1>8, <2>1, <2>7 DEF Finished
    <3>2. \A j \in 1..i : edges[j][1] = n => edges[j][2] \in v \ st
      BY <1>4, <2>1, <3>1
    <3> QED
      BY <2>7, <3>1, <3>2 DEF Along
  <2> QED
    BY <2>5, <2>6, <2>7 DEF Outcomes
<1>9. CASE s # None /\ e[1] = n /\ e[2] \in s /\ e[2] \in st
  <2>1. e[2] \in Reach(edges, e[2])
    BY <1>1, <1>9
  <2>2. Circular(edges)
    BY <1>1, <2>1 DEF Circular
  <2> QED
    BY <1>3, <1>9, <2>2 DEF Along
<1>10. CASE s # None /\ e[1] = n /\ e[2] \in s /\ e[2] \notin st
  <2>1. v = s
    BY <1>3, <1>10
  <2> QED
    BY <1>4, <1>10, <2>1 DEF Along
<1> QED
  BY <1>6, <1>7, <1>8, <1>9, <1>10

\* dfs of n, when dfs is correct for the nodes it leads to.
LEMMA NodeSearched ==
  ASSUME NEW edges, EdgeList(edges), NEW k \in Nat, NEW below, Correct(edges, k, below),
         NEW n \in Nodes(edges), NEW seen \in SUBSET Nodes(edges),
         NEW stack \in SUBSET Nodes(edges), n \notin seen, Finished(edges, seen, stack),
         \A x \in stack : n \in Reach(edges, x), Cardinality(Nodes(edges) \ seen) <= k + 1
  PROVE  Folded(Visit(edges, below, n, stack), seen \cup {n}, edges)
           \in Outcomes(edges, seen, stack, n)
<1> DEFINE s0 == seen \cup {n}
           st == stack \cup {n}
           T == [i \in 0..Len(edges) |-> Along(edges, s0, st, n, i)]
           result == Folded(Visit(edges, below, n, stack), s0, edges)
<1>1. Len(edges) \in Nat /\ DOMAIN edges = 1..Len(edges)
  BY DEF EdgeList
<1>2. n \notin stack /\ s0 \ st = seen \ stack
  BY DEF Finished
<1>3. Cardinality(Nodes(edges) \ s0) <= k
  <2>1. IsFiniteSet(Nodes(edges) \ seen)
    BY NodesFinite, FS_Subset
  <2>2. Nodes(edges) \ s0 = (Nodes(edges) \ seen) \ {n} /\ n \in Nodes(edges) \ seen
    OBVIOUS
  <2>3. Cardinality((Nodes(edges) \ seen) \ {n}) = Cardinality(Nodes(edges) \ seen) - 1
    BY <2>1, <2>2, FS_RemoveElement
  <2>4. Cardinality(Nodes(edges) \ seen) \in Nat
    BY <2>1, FS_CardinalityType
  <2>5. Cardinality(Nodes(edges) \ s0) = Cardinality((Nodes(edges) \ seen) \ {n})
    BY <2>2
  <2> HIDE DEF s0
  <2> QED
    BY <2>3, <2>4, <2>5
<1>4. s0 \in T[0]
  <2>1. Finished(edges, s0, st)
    BY <1>2 DEF Finished
  <2> QED
    BY <1>1, <2>1 DEF Along
<1>5. ASSUME NEW i \in 1..Len(edges), NEW s \in T[i - 1]
      PROVE  Visit(edges, below, n, stack)[s][edges[i]] \in T[i]
  <2>1. i - 1 \in 0..Len(edges) /\ i \in 0..Len(edges)
    BY <1>1
  <2>2. s \in Along(edges, s0, stack \cup {n}, n, i - 1)
    BY <2>1
  <2>3. n \in s0 /\ s0 \in SUBSET Nodes(edges)
    OBVIOUS
  <2> HIDE DEF s0
  <2>4. Visit(edges, below, n, stack)[s][edges[i]] \in Along(edges, s0, stack \cup {n}, n, i)
    BY <1>2, <1>3, <2>2, <2>3, EdgeVisited
  <2> QED
    BY <2>1, <2>4
<1>6. result \in T[Len(edges)]
  <2> HIDE DEF T, s0
  <2> QED
    BY <1>1, <1>4, <1>5, FoldSteps
<1>7. result \in Along(edges, s0, st, n, Len(edges))
  BY <1>1, <1>6
<1> HIDE DEF result, T
<1>8. CASE result = None /\ Circular(edges)
  BY <1>8 DEF Outcomes, result
<1>9. CASE result \in SUBSET Nodes(edges) /\ s0 \subseteq result /\ Finished(edges, result, st)
           /\ \A j \in 1..Len(edges) : edges[j][1] = n => edges[j][2] \in result \ st
  <2> DEFINE S == result \ st
  <2>1. Successors(edges, n) \subseteq S
    BY <1>1, <1>9 DEF Successors
  <2>2. n \notin S /\ S \in SUBSET Nodes(edges) /\ ClosedUnder(edges, S)
    BY <1>9 DEF Finished
  <2>3. n \notin Reach(edges, n)
    BY <2>1, <2>2 DEF Reach
  <2>4. result \ stack = S \cup {n}
    BY <1>2, <1>9
  <2>5. ClosedUnder(edges, S \cup {n})
    BY <2>1, <2>2 DEF ClosedUnder
  <2>6. \A x \in S : x \notin Reach(edges, x)
    BY <1>9 DEF Finished
  <2>7. stack \subseteq result
    BY <1>9 DEF Finished
  <2> HIDE DEF S
  <2>8. Finished(edges, result, stack)
    BY <1>9, <2>3, <2>4, <2>5, <2>6, <2>7 DEF Finished
  <2> QED
    BY <1>9, <2>8 DEF Outcomes, result
<1> QED
  BY <1>7, <1>8, <1>9 DEF Along

LEMMA SearchCorrect ==
  ASSUME NEW edges, EdgeList(edges), NEW d,
         SearchedTo(edges, Cardinality(Nodes(edges)), d)
  PROVE  Correct(edges, Cardinality(Nodes(edges)), d[Cardinality(Nodes(edges))])
<1> DEFINE size == Cardinality(Nodes(edges))
           R == {k \in Nat : k <= size => Correct(edges, k, d[k])}
<1>1. size \in Nat
  BY NodesFinite
<1>2. \A k \in 0..size : d[k] = Level(edges, k, d[k - 1])
  BY DEF SearchedTo
<1>3. 0 \in R
  <2> SUFFICES ASSUME NEW n \in Nodes(edges), NEW seen \in SUBSET Nodes(edges), n \notin seen,
                      Cardinality(Nodes(edges) \ seen) <= 0
               PROVE  FALSE
    BY DEF Correct
  <2>1. IsFiniteSet(Nodes(edges) \ seen)
    BY NodesFinite, FS_Subset
  <2>2. Cardinality(Nodes(edges) \ seen) \in Nat
    BY <2>1, FS_CardinalityType
  <2>3. Nodes(edges) \ seen = {}
    BY <2>1, <2>2, FS_EmptySet
  <2> QED
    BY <2>3
<1>4. ASSUME NEW k \in Nat, k \in R PROVE k + 1 \in R
  <2> SUFFICES ASSUME k + 1 <= size PROVE Correct(edges, k + 1, d[k + 1])
    OBVIOUS
  <2>1. k <= size /\ k + 1 \in 0..size /\ k + 1 # 0 /\ (k + 1) - 1 = k
    BY <1>1
  <2>2. Correct(edges, k, d[k])
    BY <1>4, <2>1
  <2>3. d[k + 1] = Level(edges, k + 1, d[k])
    BY <1>2, <2>1
  <2>4. ASSUME NEW n \in Nodes(edges), NEW seen \in SUBSET Nodes(edges),
               NEW stack \in SUBSET Nodes(edges), n \notin seen, Finished(edges, seen, stack),
               \A x \in stack : n \in Reach(edges, x),
               Cardinality(Nodes(edges) \ seen) <= k + 1
        PROVE  d[k + 1][n][seen][stack] \in Outcomes(edges, seen, stack, n)
    <3>1. d[k + 1][n][seen][stack] =
            Folded(Visit(edges, d[k], n, stack), seen \cup {n}, edges)
      BY <2>1, <2>3 DEF Level
    <3> QED
      BY <2>2, <2>4, <3>1, NodeSearched
  <2> QED
    BY <2>4 DEF Correct
<1>5. \A k \in Nat : k \in R
  <2> HIDE DEF R
  <2> QED
    BY <1>3, <1>4, Induction
<1> QED
  BY <1>1, <1>5

-----------------------------------------------------------------------------
\* The nodes, each of them once.
LEMMA RootsListed ==
  ASSUME NEW S, IsFiniteSet(S)
  PROVE  /\ Len(SetToSeq(S)) \in Nat /\ SetToSeq(S) \in [1..Len(SetToSeq(S)) -> S]
         /\ \A x \in S : \E i \in 1..Len(SetToSeq(S)) : SetToSeq(S)[i] = x
<1> DEFINE f == SetToSeq(S)
           n == Cardinality(S)
<1>1. n \in Nat /\ ExistsBijection(1..n, S)
  BY FS_CardinalityType
<1>2. \E g \in [1..n -> S] : IsInjective(g)
  BY <1>1 DEF ExistsBijection, Bijection, Injection
<1>3. f \in [1..n -> S] /\ IsInjective(f)
  BY <1>2 DEF SetToSeq
<1> HIDE DEF f
<1>4. f \in Injection(1..n, S)
  BY <1>3 DEF Injection
<1>5. Cardinality(1..n) = n
  BY <1>1, FS_Interval
<1>6. f \in Surjection(1..n, S)
  BY <1>4, <1>5, FS_Injection
<1>7. f \in Seq(S) /\ Len(f) = n
  BY <1>1, <1>3
<1> QED
  BY <1>1, <1>3, <1>6, <1>7 DEF Surjection, f

\* _has_cycle is true exactly of the graphs in which some node reaches itself.
THEOREM CycleFound ==
  ASSUME NEW edges, EdgeList(edges)
  PROVE  HasCycle(edges) <=> Circular(edges)
<1> DEFINE nodes == Nodes(edges)
           seq == SetToSeq(nodes)
<1>1. IsFiniteSet(nodes) /\ Cardinality(nodes) \in Nat
  BY NodesFinite
<1>2. PICK d : /\ SearchedTo(edges, Cardinality(nodes), d)
               /\ HasCycle(edges) <=> Folded(Rooted(edges, d), {}, seq) = None
  BY <1>1, SearchDefined
<1>3. Correct(edges, Cardinality(nodes), d[Cardinality(nodes)])
  BY <1>2, SearchCorrect
<1>4. /\ Len(seq) \in Nat /\ seq \in [1..Len(seq) -> nodes]
      /\ \A x \in nodes : \E i \in 1..Len(seq) : seq[i] = x
  BY <1>1, RootsListed
<1> DEFINE Roots(i) == (IF Circular(edges) THEN {None} ELSE {}) \cup
                         {s \in SUBSET nodes : Finished(edges, s, {}) /\
                                               \A j \in 1..i : seq[j] \in s}
           T == [i \in 0..Len(seq) |-> Roots(i)]
           result == Folded(Rooted(edges, d), {}, seq)
<1> HIDE DEF seq
<1>5. {} \in T[0]
  BY <1>4 DEF Finished, ClosedUnder
<1>6. ASSUME NEW i \in 1..Len(seq), NEW s \in T[i - 1]
      PROVE  Rooted(edges, d)[s][seq[i]] \in T[i]
  <2> DEFINE n == seq[i]
             v == Rooted(edges, d)[s][n]
  <2>1. i - 1 \in 0..Len(seq) /\ i \in 0..Len(seq) /\ n \in nodes
    BY <1>4
  <2>2. s \in Roots(i - 1)
    BY <2>1
  <2>3. s \in Seen(edges)
    BY <2>2 DEF Seen
  <2>4. v = IF s = None \/ n \in s THEN s ELSE d[Cardinality(nodes)][n][s][{}]
    BY <2>1, <2>3 DEF Rooted
  <2>5. \A j \in 1..i : j \in 1..(i - 1) \/ j = i
    OBVIOUS
  <2>6. None \notin SUBSET nodes
    BY DEF EdgeList
  <2> HIDE DEF v
  <2>7. CASE s = None
    <3>1. Circular(edges)
      BY <2>2, <2>6, <2>7
    <3> QED
      BY <2>1, <2>4, <2>7, <3>1 DEF v
  <2>8. CASE s # None /\ n \in s
    <3>1. v = s
      BY <2>4, <2>8
    <3>2. s \in Roots(i)
      BY <2>2, <2>5, <2>8
    <3> QED
      BY <2>1, <3>1, <3>2 DEF v
  <2>9. CASE s # None /\ n \notin s
    <3>1. s \in SUBSET nodes /\ Finished(edges, s, {}) /\ \A j \in 1..(i - 1) : seq[j] \in s
      BY <2>2, <2>9
    <3>2. Cardinality(nodes \ s) <= Cardinality(nodes)
      BY <1>1, FS_Subset
    <3>3. v \in Outcomes(edges, s, {}, n)
      BY <1>3, <2>1, <2>4, <2>9, <3>1, <3>2 DEF Correct
    <3>4. v \in Roots(i)
      BY <2>5, <3>1, <3>3 DEF Outcomes
    <3> QED
      BY <2>1, <3>4 DEF v
  <2> QED
    BY <2>7, <2>8, <2>9 DEF v
<1>7. result \in T[Len(seq)]
  <2> HIDE DEF T
  <2> QED
    BY <1>4, <1>5, <1>6, FoldSteps
<1>8. result \in Roots(Len(seq))
  BY <1>4, <1>7
<1> HIDE DEF result
<1>9. ASSUME result # None PROVE ~Circular(edges)
  <2>1. Finished(edges, result, {}) /\ \A j \in 1..Len(seq) : seq[j] \in result
    BY <1>8, <1>9
  <2>2. \A x \in nodes : x \in result
    BY <1>4, <2>1
  <2> QED
    BY <2>1, <2>2 DEF Finished, Circular
<1>10. ASSUME result = None PROVE Circular(edges)
  <2>1. None \notin SUBSET nodes
    BY DEF EdgeList
  <2> QED
    BY <1>8, <1>10, <2>1
<1> QED
  BY <1>2, <1>9, <1>10 DEF result

\* So the graphs that are refused are those with a cycle.
LEMMA RefusedCyclic == Refused = Cyclic
<1>1. \A edges \in GraphEdits : EdgeList(edges)
  BY AnalysisRecordsAssumption DEF EdgeList
<1> QED
  BY <1>1, CycleFound DEF Refused, Cyclic, Circular

\* An edit that is not beginning: it keeps its graph and what was said of it.
Unedited(r) ==
  req'[r].op = "edit" => \/ req'[r] = req[r]
                         \/ /\ req[r].op = "edit" /\ req'[r].rest = req[r].rest
                            /\ req[r].pc # "refused" /\ req'[r].pc # "refused"

LEMMA EditsKept ==
  ASSUME CyclesRefused, \A g \in graphs' : g \in graphs \/ ~g.user, \A r \in Requests : Unedited(r)
  PROVE  CyclesRefused'
BY DEF CyclesRefused, Unedited

LEMMA EditsStep ==
  ASSUME IInv, CyclesRefused, [Next]_vars
  PROVE  CyclesRefused'
<1> USE DEF IInv
<1>1. ASSUME UNCHANGED <<req, graphs>> PROVE CyclesRefused'
  BY <1>1, EditsKept DEF Unedited
<1>2. ASSUME NEW r \in Requests, NEW s, Start(r, s), s.op # "edit"
      PROVE  \A q \in Requests : Unedited(q)
  BY <1>2 DEF Start, Types, Unedited
<1>3. ASSUME NEW r \in Requests, NEW pc, pc # "refused", Goto(r, pc), req[r].pc # "refused"
      PROVE  \A q \in Requests : Unedited(q)
  <2>1. /\ req'[r] = [req[r] EXCEPT !.pc = pc]
        /\ \A q \in Requests \ {r} : req'[q] = req[q]
    BY <1>3 DEF Goto, Types
  <2>2. req'[r].rest = req[r].rest /\ req'[r].pc = pc /\ req'[r].op = req[r].op
    BY <2>1 DEF Types, Sessions
  <2> QED
    BY <1>3, <2>1, <2>2 DEF Unedited
<1>4. ASSUME NEW r \in Requests, Fails(r), req[r].pc # "refused" PROVE CyclesRefused'
  BY <1>3, <1>4, EditsKept DEF Fails
<1>5. CASE Creation \/ Persist
  <2>1. CASE CreateRow
    <3>1. \A q \in Requests : Unedited(q)
      BY <2>1 DEF CreateRow, Unedited
    <3>2. \A g \in graphs' : ~g.user
      BY <2>1 DEF CreateRow
    <3> QED
      BY <3>1, <3>2, EditsKept
  <2>2. CASE ~CreateRow
    BY <1>1, <1>5, <2>2 DEF Creation, CreateNumber, CreateVersion, Enqueue, Persist, PersistBegin,
              PersistInPlace, PersistNumber, PersistWrite, children
  <2> QED
    BY <2>1, <2>2
<1>6. ASSUME NEW r \in Requests, History(r) PROVE CyclesRefused'
  <2>1. CASE SnapshotBegin(r) \/ RevertBegin(r)
    BY <1>2, <2>1, EditsKept DEF SnapshotBegin, RevertBegin, Opened, Idle, children
  <2>2. CASE SnapshotWrite(r) \/ RevertWrite(r)
    BY <1>3, <1>4, <2>2, EditsKept DEF SnapshotWrite, RevertWrite, At
  <2>3. CASE Number(r)
    <3>1. req[r].op # "edit" /\ graphs' = graphs
      BY <2>3 DEF Number, At, children
    <3>2. req'[r].op = req[r].op /\ \A q \in Requests \ {r} : req'[q] = req[q]
      BY <2>3 DEF Number, Types, Sessions
    <3>3. \A q \in Requests : Unedited(q)
      BY <3>1, <3>2 DEF Unedited
    <3> QED
      BY <3>1, <3>3, EditsKept
  <2> QED
    BY <1>6, <2>1, <2>2, <2>3 DEF History
<1>7. ASSUME NEW r \in Requests, Discuss(r) PROVE CyclesRefused'
  <2>1. CASE CommentBegin(r) \/ ResolveBegin(r) \/ UncommentBegin(r)
    BY <1>2, <2>1, EditsKept DEF CommentBegin, ResolveBegin, UncommentBegin, Opened, Idle, children
  <2>2. CASE CommentWrite(r) \/ ResolveWrite(r) \/ UncommentWrite(r)
    BY <1>3, <1>4, <2>2, EditsKept DEF CommentWrite, ResolveWrite, UncommentWrite, At
  <2> QED
    BY <1>7, <2>1, <2>2 DEF Discuss
<1>8. ASSUME NEW r \in Requests, Share(r) PROVE CyclesRefused'
  <2>1. CASE ShareBegin(r) \/ RevokeBegin(r) \/ ViewBegin(r)
    BY <1>2, <2>1, EditsKept DEF ShareBegin, RevokeBegin, ViewBegin, Opened, Idle, children
  <2>2. CASE ShareWrite(r) \/ RevokeWrite(r) \/ ViewCount(r) \/ ViewLoad(r)
    BY <1>3, <1>4, <2>2, EditsKept DEF ShareWrite, RevokeWrite, ViewCount, ViewLoad, At, children
  <2> QED
    BY <1>8, <2>1, <2>2 DEF Share
<1>9. ASSUME NEW r \in Requests, EditBegin(r) PROVE CyclesRefused'
  <2>1. PICK edges \in GraphEdits, p \in {None} \cup {g.id : g \in graphs} :
          Start(r, [Opened("edit", IF edges \in Refused THEN "refused" ELSE "write")
                      EXCEPT !.key = p, !.rest = edges])
    BY <1>9 DEF EditBegin
  <2>2. /\ req'[r].rest = edges
        /\ req'[r].pc = IF edges \in Refused THEN "refused" ELSE "write"
        /\ \A q \in Requests \ {r} : req'[q] = req[q]
    BY <2>1 DEF Start, Opened, Idle, Types
  <2>3. graphs' = graphs
    BY <1>9 DEF EditBegin, children
  <2> QED
    BY <2>2, <2>3, RefusedCyclic DEF CyclesRefused
<1>10. ASSUME NEW r \in Requests, EditWrite(r) PROVE CyclesRefused'
  <2>1. CASE Fails(r)
    BY <1>4, <1>10, <2>1 DEF EditWrite, At
  <2>2. CASE Goto(r, "done") /\ graphs' = graphs \cup
               {[id |-> r, parent |-> req[r].key, edges |-> req[r].rest, user |-> TRUE]}
    <3>1. \A q \in Requests : Unedited(q)
      BY <1>3, <1>10, <2>2 DEF EditWrite, At
    <3>2. req[r].rest \notin Cyclic
      BY <1>10 DEF EditWrite, At, CyclesRefused
    <3> QED
      BY <2>2, <3>1, <3>2 DEF CyclesRefused, Unedited
  <2> QED
    BY <1>10, <2>1, <2>2 DEF EditWrite
<1>11. ASSUME NEW r \in Requests, Delete(r) PROVE CyclesRefused'
  <2>1. CASE DeleteBegin(r)
    BY <1>2, <2>1, EditsKept DEF DeleteBegin, Opened, Idle, children
  <2>2. CASE DeleteCancel(r) \/ DeleteRemove(r)
    BY <1>3, <1>4, <2>2, EditsKept DEF DeleteCancel, DeleteRemove, At, children
  <2> QED
    BY <1>11, <2>1, <2>2 DEF Delete
<1>12. ASSUME NEW r \in Requests, Abort(r) PROVE CyclesRefused'
  BY <1>4, <1>12 DEF Abort
<1>13. CASE UNCHANGED vars
  BY <1>1, <1>13 DEF vars
<1> QED
  BY <1>5, <1>6, <1>7, <1>8, <1>9, <1>10, <1>11, <1>12, <1>13 DEF Next, Edit

\* An edit is refused exactly if its graph has a cycle, and no user's graph that is
\* stored has one.
THEOREM CyclicRefused == Spec => []CyclesRefused
<1>1. Init => CyclesRefused
  BY DEF Init, CyclesRefused, Idle
<1>2. IInv /\ CyclesRefused /\ [Next]_vars => CyclesRefused'
  BY EditsStep
<1> QED
  BY <1>1, <1>2, Invariance, PTL DEF Spec
=============================================================================
