-------------------------- MODULE AnalysisRecords --------------------------
(***************************************************************************)
(* The records that users and EDA keep of one analysis, while requests on  *)
(* it run at the same time and the analysis may be deleted: its            *)
(* configuration with the version history and the audit log                *)
(* (crud/analysis.py, crud/analysis_version.py, crud/audit_log.py,         *)
(* api/v1/versions.py), its comments (api/v1/comments.py), share links     *)
(* (api/v1/sharing.py) and edited graphs (api/v1/results.py).              *)
(*                                                                         *)
(* A request is a session of its own. Begin stands for the reads that its  *)
(* checks are made of: the objects it loads keep these values, since a     *)
(* later select does not refresh what the session holds. Its transaction   *)
(* takes effect when it commits (READ COMMITTED): an insert waits for      *)
(* another one of the same key, fails if that commits, and fails if a row  *)
(* it refers to is gone. On commit SQLAlchemy writes the attributes that   *)
(* differ from what was loaded, an equal value is not written, and an      *)
(* UPDATE that meets no row fails. A request that fails leaves nothing.    *)
(***************************************************************************)
EXTENDS Naturals, FiniteSets, FiniteSetsExt, Sequences, SequencesExt

CONSTANTS
  Requests,             \* each made at most once
  None,
  GraphEdits,           \* the edge lists that users send, of pairs
  ShareLimit,           \* 10 in the code
  MaxPersists           \* bound: attempts of EDA

Nodes(edges) == UNION {{edges[i][1], edges[i][2]} : i \in DOMAIN edges}

\* Configurations: none given, one given, and what EDA makes of none.
Configs == {"empty", "given", "typed"}

ASSUME AnalysisRecordsAssumption ==
  /\ None \notin Requests \cup Configs
  /\ \A edges \in GraphEdits : /\ edges \in Seq(Nodes(edges) \X Nodes(edges))
                              /\ \A S \in SUBSET Nodes(edges) : S # None
  /\ ShareLimit \in Nat /\ MaxPersists \in Nat

Users   == {"owner", "guest"}

\* The rows of analysis_versions, analysis_comments, analysis_shares, audit_logs.
VersionRows == [number : Nat \ {0}, config : Configs,
                kind : {"initial", "auto", "snapshot", "revert"}]
CommentRows == [id : Requests, parent : Requests \cup {None}, user : Users, resolved : BOOLEAN]
ShareRows   == [token : Requests, views : Nat]
AuditRows   == [action : {"create", "update", "snapshot", "revert", "delete"}, number : Nat,
                config : Configs \cup {None}]

VARIABLES
  row,          \* of the analysis
  config,       \* analyses.config
  creator,      \* POST /analyses
  versions, audit,
  comments, shares, graphs,
  req,          \* what each request has loaded
  worker,       \* EDA's _persist_analysis_types
  persists

vars == <<row, config, creator, versions, audit, comments, shares, graphs, req, worker,
          persists>>
children == <<versions, comments, shares, graphs>>

There == row \in {"live", "cancelled"}

\* A session: the operation, what is next, the configuration and a number it
\* has read, the row it is about, and what else it must keep.
Idle == [op |-> "none", pc |-> "idle", conf |-> None, num |-> 0, key |-> None, rest |-> None]

Init ==
  /\ row = "absent" /\ config \in {"empty", "given"} /\ creator = [Idle EXCEPT !.pc = "row"]
  /\ versions = {} /\ audit = {} /\ comments = {} /\ shares = {} /\ graphs = {}
  /\ req = [r \in Requests |-> Idle]
  /\ worker = Idle /\ persists = 0

Start(r, session) ==
  /\ req[r].pc = "idle"
  /\ req' = [req EXCEPT ![r] = session]

Opened(op, pc) == [Idle EXCEPT !.op = op, !.pc = pc]

At(r, op, pc) == req[r].op = op /\ req[r].pc = pc
Goto(r, pc) == req' = [req EXCEPT ![r].pc = pc]

Fails(r) ==
  /\ Goto(r, "failed")
  /\ UNCHANGED <<row, config, creator, versions, audit, comments, shares, graphs, worker,
                 persists>>

-----------------------------------------------------------------------------
(* Versions *)

\* Mutant: without versions the number before the first is taken.
NextNumberOfNone == IF versions = {} THEN 0 ELSE Max({v.number : v \in versions}) + 1

\* get_latest_version_number, and the number after it.
NextNumber == IF versions = {} THEN 1 ELSE Max({v.number : v \in versions}) + 1

\* Mutant: the table has no unique key.
UnkeyedFits(number) == There

\* The insert of create_version: the foreign key, uq_analysis_versions_analysis_version.
Fits(number) == There /\ \A v \in versions : v.number # number

Version(number, conf, kind) == [number |-> number, config |-> conf, kind |-> kind]

\* An entry of the log tells what its "changes" hold: a snapshot the number and
\* the hash of the configuration, a revert the number and the configuration, a
\* creation the configuration, an update the configuration if that has changed,
\* but no number.
Entry(action, number, conf) == [action |-> action, number |-> number, config |-> conf]
Bare(action) == Entry(action, 0, None)

-----------------------------------------------------------------------------
(* POST /analyses: the row, its first version, then the task *)

CreateRow ==
  /\ creator.pc = "row"
  /\ row' = "live" /\ creator' = [creator EXCEPT !.pc = "number", !.conf = config]
  /\ graphs' = {[id |-> "discovered", parent |-> None, edges |-> << >>, user |-> FALSE]}
  /\ UNCHANGED <<config, versions, audit, comments, shares, req, worker, persists>>

\* create_version(auto_commit=True): the number, then the insert. The owner may
\* have found the row meanwhile.
CreateNumber ==
  /\ creator.pc = "number"
  /\ creator' = [creator EXCEPT !.pc = "write", !.num = NextNumber]
  /\ UNCHANGED <<row, config, children, audit, req, worker, persists>>

CreateVersion ==
  /\ creator.pc = "write"
  /\ IF Fits(creator.num)
       THEN /\ versions' = versions \cup {Version(creator.num, creator.conf, "initial")}
            /\ creator' = [creator EXCEPT !.pc = "enqueue"]
       ELSE creator' = [creator EXCEPT !.pc = "failed"] /\ UNCHANGED versions
  /\ UNCHANGED <<row, config, audit, comments, shares, graphs, req, worker, persists>>

\* delay, and the update of celery_task_id, which logs itself and commits the
\* entry of the creation too: it fails with the queue, or when the row is gone.
Enqueue ==
  /\ creator.pc = "enqueue"
  /\ \/ /\ There
        /\ creator' = [creator EXCEPT !.pc = "queued"]
        /\ audit' = audit \cup {Entry("create", 0, creator.conf), Bare("update")}
     \/ creator' = [creator EXCEPT !.pc = "failed"] /\ UNCHANGED audit
  /\ UNCHANGED <<row, config, children, req, worker, persists>>

-----------------------------------------------------------------------------
(* EDA: _persist_analysis_types *)

PersistBegin ==
  /\ creator.pc = "queued" /\ worker.pc = "idle" /\ persists < MaxPersists
  /\ There
  /\ persists' = persists + 1
  /\ worker' = [Idle EXCEPT !.pc = "compare", !.conf = config]
  /\ UNCHANGED <<row, config, creator, children, audit, req>>

\* A configuration that is not empty is changed in place: it equals itself when
\* update compares it and when the session is flushed. Only the audit entry is
\* written.
PersistInPlace ==
  /\ worker.pc = "compare" /\ worker.conf # "empty"
  /\ audit' = audit \cup {Bare("update")}
  /\ worker' = Idle
  /\ UNCHANGED <<row, config, creator, children, req, persists>>

PersistNumber ==
  /\ worker.pc = "compare" /\ worker.conf = "empty"
  /\ worker' = [worker EXCEPT !.pc = "write", !.num = NextNumber]
  /\ UNCHANGED <<row, config, creator, children, audit, req, persists>>

\* Mutant: the empty configuration is changed in place as well.
PersistWriteInPlace ==
  /\ worker.pc = "write"
  /\ worker' = Idle
  /\ config' = IF There THEN "typed" ELSE config
  /\ audit' = audit \cup {Bare("update")}
  /\ UNCHANGED <<row, creator, children, req, persists>>

\* Version, configuration and audit entry in one commit. The entry does not say
\* which version it was.
PersistWrite ==
  /\ worker.pc = "write"
  /\ worker' = Idle
  /\ IF Fits(worker.num)
       THEN /\ versions' = versions \cup {Version(worker.num, "typed", "auto")}
            /\ config' = "typed"
            /\ audit' = audit \cup {Entry("update", 0, "typed")}
       ELSE UNCHANGED <<versions, config, audit>>
  /\ UNCHANGED <<row, creator, comments, shares, graphs, req, persists>>

-----------------------------------------------------------------------------
(* POST /versions/snapshot and /versions/{version_number}/revert *)

\* verify_analysis_access loads the analysis.
SnapshotBegin(r) ==
  /\ There
  /\ Start(r, [Opened("snapshot", "number") EXCEPT !.conf = config])
  /\ UNCHANGED <<row, config, creator, children, audit, worker, persists>>

\* The target is read after the analysis; versions do not change.
RevertBegin(r) ==
  /\ There
  /\ \E v \in versions :
       Start(r, [Opened("revert", "number") EXCEPT !.conf = config, !.rest = v.config])
  /\ UNCHANGED <<row, config, creator, children, audit, worker, persists>>

Number(r) ==
  /\ At(r, "snapshot", "number") \/ At(r, "revert", "number")
  /\ req' = [req EXCEPT ![r].num = NextNumber, ![r].pc = "write"]
  /\ UNCHANGED <<row, config, creator, children, audit, worker, persists>>

\* Mutant: the version is committed before the audit entry is written.
SnapshotWriteEarly(r) ==
  \/ /\ At(r, "snapshot", "write") /\ Fits(req[r].num)
     /\ versions' = versions \cup {Version(req[r].num, req[r].conf, "snapshot")}
     /\ Goto(r, "logging")
     /\ UNCHANGED <<row, config, creator, audit, comments, shares, graphs, worker, persists>>
  \/ /\ At(r, "snapshot", "logging")
     /\ audit' = audit \cup {Entry("snapshot", req[r].num, req[r].conf)}
     /\ Goto(r, "done")
     /\ UNCHANGED <<row, config, creator, children, worker, persists>>

\* create_manual_snapshot: version and audit entry in one commit.
SnapshotWrite(r) ==
  /\ At(r, "snapshot", "write")
  /\ \/ /\ Fits(req[r].num)
        /\ versions' = versions \cup {Version(req[r].num, req[r].conf, "snapshot")}
        /\ audit' = audit \cup {Entry("snapshot", req[r].num, req[r].conf)}
        /\ Goto(r, "done")
        /\ UNCHANGED <<row, config, creator, comments, shares, graphs, worker, persists>>
     \/ ~Fits(req[r].num) /\ Fails(r)

\* revert_to_version: version, configuration and audit entry in one commit. The
\* configuration is written if it differs from the one loaded at first.
RevertWrite(r) ==
  /\ At(r, "revert", "write")
  /\ \/ /\ Fits(req[r].num)
        /\ versions' = versions \cup {Version(req[r].num, req[r].rest, "revert")}
        /\ config' = IF req[r].rest = req[r].conf THEN config ELSE req[r].rest
        /\ audit' = audit \cup {Entry("revert", req[r].num, req[r].rest)}
        /\ Goto(r, "done")
        /\ UNCHANGED <<row, creator, comments, shares, graphs, worker, persists>>
     \/ ~Fits(req[r].num) /\ Fails(r)

-----------------------------------------------------------------------------
(* Comments *)

\* A comment on the analysis, or a reply to one that is no reply. Whoever has an
\* account may comment.
CommentBegin(r) ==
  /\ There
  /\ \E u \in Users, p \in {None} \cup {c.id : c \in {d \in comments : d.parent = None}} :
       Start(r, [Opened("comment", "write") EXCEPT !.key = p, !.rest = u])
  /\ UNCHANGED <<row, config, creator, children, audit, worker, persists>>

\* Foreign keys on the analysis and on the parent.
CommentWrite(r) ==
  /\ At(r, "comment", "write")
  /\ \/ /\ There /\ (req[r].key = None \/ \E c \in comments : c.id = req[r].key)
        /\ comments' = comments \cup
             {[id |-> r, parent |-> req[r].key, user |-> req[r].rest, resolved |-> FALSE]}
        /\ Goto(r, "done")
        /\ UNCHANGED <<row, config, creator, versions, audit, shares, graphs, worker, persists>>
     \/ /\ ~(There /\ (req[r].key = None \/ \E c \in comments : c.id = req[r].key))
        /\ Fails(r)

\* PATCH: whoever has an account resolves or opens; the content is not followed.
ResolveBegin(r) ==
  /\ \E c \in comments, b \in {0, 1} :
       Start(r, [Opened("resolve", "write") EXCEPT !.num = b, !.key = c.id, !.rest = c.resolved])
  /\ UNCHANGED <<row, config, creator, children, audit, worker, persists>>

ResolveWrite(r) ==
  /\ At(r, "resolve", "write")
  /\ LET new == req[r].num = 1
         mine == {c \in comments : c.id = req[r].key}
     IN \/ /\ new = req[r].rest \/ mine # {}
           /\ comments' = IF new = req[r].rest THEN comments
                ELSE (comments \ mine) \cup {[c EXCEPT !.resolved = new] : c \in mine}
           /\ Goto(r, "done")
           /\ UNCHANGED <<row, config, creator, versions, audit, shares, graphs, worker,
                          persists>>
        \/ new # req[r].rest /\ mine = {} /\ Fails(r)

\* DELETE, by the one who wrote it.
UncommentBegin(r) ==
  /\ \E c \in comments : Start(r, [Opened("uncomment", "write") EXCEPT !.key = c.id])
  /\ UNCHANGED <<row, config, creator, children, audit, worker, persists>>

\* The replies go with it: the relation cascades, here and in the database
\* (models/analysis_comment.py:92; the note at comments.py:453 says that they remain).
UncommentWrite(r) ==
  /\ At(r, "uncomment", "write")
  /\ comments' = {c \in comments : req[r].key \notin {c.id, c.parent}}
  /\ Goto(r, "done")
  /\ UNCHANGED <<row, config, creator, versions, audit, shares, graphs, worker, persists>>

-----------------------------------------------------------------------------
(* Share links *)

ShareBegin(r) ==
  /\ There /\ Cardinality(shares) < ShareLimit
  /\ Start(r, Opened("share", "write"))
  /\ UNCHANGED <<row, config, creator, children, audit, worker, persists>>

ShareWrite(r) ==
  /\ At(r, "share", "write")
  /\ \/ /\ There
        /\ shares' = shares \cup {[token |-> r, views |-> 0]}
        /\ Goto(r, "done")
        /\ UNCHANGED <<row, config, creator, versions, audit, comments, graphs, worker, persists>>
     \/ ~There /\ Fails(r)

RevokeBegin(r) ==
  /\ \E s \in shares : Start(r, [Opened("revoke", "write") EXCEPT !.key = s.token])
  /\ UNCHANGED <<row, config, creator, children, audit, worker, persists>>

RevokeWrite(r) ==
  /\ At(r, "revoke", "write")
  /\ shares' = {s \in shares : s.token # req[r].key}
  /\ Goto(r, "done")
  /\ UNCHANGED <<row, config, creator, versions, audit, comments, graphs, worker, persists>>

\* GET /shared/{token}, of a link that has not expired and, if it is private, by
\* somebody with an account.
ViewBegin(r) ==
  /\ \E s \in shares : Start(r, [Opened("view", "count") EXCEPT !.num = s.views, !.key = s.token])
  /\ UNCHANGED <<row, config, creator, children, audit, worker, persists>>

\* Mutant: the number that was loaded is written back.
ViewCountStale(r) ==
  /\ At(r, "view", "count")
  /\ shares' = {IF s.token = req[r].key THEN [s EXCEPT !.views = req[r].num] ELSE s : s \in shares}
  /\ Goto(r, "counted")
  /\ UNCHANGED <<row, config, creator, versions, audit, comments, graphs, worker, persists>>

\* Mutant: the link is stored again if it is not there.
ViewCountMerged(r) ==
  /\ At(r, "view", "count")
  /\ shares' = {s \in shares : s.token # req[r].key}
                 \cup {[token |-> req[r].key, views |-> req[r].num + 1]}
  /\ Goto(r, "counted")
  /\ UNCHANGED <<row, config, creator, versions, audit, comments, graphs, worker, persists>>

\* One more than was loaded; a link that was revoked meanwhile fails the request.
ViewCount(r) ==
  /\ At(r, "view", "count")
  /\ LET mine == {s \in shares : s.token = req[r].key} IN
     \/ /\ mine # {}
        /\ shares' = (shares \ mine) \cup {[s EXCEPT !.views = req[r].num + 1] : s \in mine}
        /\ Goto(r, "counted")
        /\ UNCHANGED <<row, config, creator, versions, audit, comments, graphs, worker, persists>>
     \/ mine = {} /\ Fails(r)

\* get_with_relations after the commit: the results, or 404.
ViewLoad(r) ==
  /\ At(r, "view", "counted")
  /\ Goto(r, IF There THEN "served" ELSE "notfound")
  /\ UNCHANGED <<row, config, creator, children, audit, worker, persists>>

-----------------------------------------------------------------------------
(* Edited graphs *)

\* Mutant: a node that was met before closes a cycle.
HasCycleBySeen(edges) ==
  \E i, j \in DOMAIN edges : i # j /\ edges[i][2] = edges[j][2]

\* The last value of a loop over seq that begins with base. (FoldLeft takes an
\* operator, which a proof cannot instantiate.)
Folded(step, base, seq) ==
  LET after[i \in 0..Len(seq)] == IF i = 0 THEN base ELSE step[after[i - 1]][seq[i]]
  IN after[Len(seq)]

Seen(edges) == {None} \cup SUBSET Nodes(edges)

\* The body of dfs for one edge: what is seen after it, or None if a cycle was met.
\* Only the edges of n matter; below is dfs for the nodes they lead to.
Visit(edges, below, n, stack) ==
  [s \in Seen(edges) |-> [e \in Nodes(edges) \X Nodes(edges) |->
     IF s = None \/ e[1] # n THEN s
     ELSE IF e[2] \notin s THEN below[e[2]][s][stack \cup {n}]
     ELSE IF e[2] \in stack \cup {n} THEN None ELSE s]]

\* _has_cycle: depth first, with the nodes seen and those on the stack. It goes k
\* deep, and never deeper than there are nodes.
HasCycle(edges) ==
  LET nodes == Nodes(edges)
      dfs[k \in 0..Cardinality(nodes)] ==
        [n \in nodes |-> [seen \in SUBSET nodes |-> [stack \in SUBSET nodes |->
           IF k = 0 THEN seen
           ELSE Folded(Visit(edges, dfs[k - 1], n, stack), seen \cup {n}, edges)]]]
      root == [s \in Seen(edges) |-> [n \in nodes |->
                 IF s = None \/ n \in s THEN s ELSE dfs[Cardinality(nodes)][n][s][{}]]]
  IN Folded(root, {}, SetToSeq(nodes)) = None

Refused == {edges \in GraphEdits : HasCycle(edges)}

\* A parent is found by its id, or is the first one for "default"; without one
\* the graph is stored all the same.
EditBegin(r) ==
  /\ There
  /\ \E edges \in GraphEdits, p \in {None} \cup {g.id : g \in graphs} :
       Start(r, [Opened("edit", IF edges \in Refused THEN "refused" ELSE "write")
                   EXCEPT !.key = p, !.rest = edges])
  /\ UNCHANGED <<row, config, creator, children, audit, worker, persists>>

EditWrite(r) ==
  /\ At(r, "edit", "write")
  /\ \/ /\ There
        /\ graphs' = graphs \cup
             {[id |-> r, parent |-> req[r].key, edges |-> req[r].rest, user |-> TRUE]}
        /\ Goto(r, "done")
        /\ UNCHANGED <<row, config, creator, versions, audit, comments, shares, worker, persists>>
     \/ ~There /\ Fails(r)

-----------------------------------------------------------------------------
(* DELETE /analyses/{id} *)

DeleteBegin(r) ==
  /\ There
  /\ Start(r, [Opened("delete", "cancel") EXCEPT !.rest = row])
  /\ UNCHANGED <<row, config, creator, children, audit, worker, persists>>

\* The audit entry and the status in one commit, which logs itself; a status that
\* was CANCELLED already is not written.
DeleteCancel(r) ==
  /\ At(r, "delete", "cancel")
  /\ \/ /\ There \/ req[r].rest = "cancelled"
        /\ row' = IF There THEN "cancelled" ELSE row
        /\ audit' = audit \cup {Bare("delete"), Bare("update")}
        /\ Goto(r, "remove")
        /\ UNCHANGED <<config, creator, children, worker, persists>>
     \/ ~There /\ req[r].rest # "cancelled" /\ Fails(r)

\* Mutant: the comments are left to whoever wrote them.
DeleteKeepsComments(r) ==
  /\ At(r, "delete", "remove")
  /\ row' = "gone"
  /\ versions' = {} /\ shares' = {} /\ graphs' = {}
  /\ Goto(r, "done")
  /\ UNCHANGED <<config, creator, audit, comments, worker, persists>>

\* Everything that belongs to the analysis goes with it (ondelete="CASCADE"),
\* what was inserted since it was loaded as well; the audit log stays.
DeleteRemove(r) ==
  /\ At(r, "delete", "remove")
  /\ row' = "gone"
  /\ versions' = {} /\ comments' = {} /\ shares' = {} /\ graphs' = {}
  /\ Goto(r, "done")
  /\ UNCHANGED <<config, creator, audit, worker, persists>>

-----------------------------------------------------------------------------

\* The process ends, or the connection is lost, before the commit.
Abort(r) ==
  /\ req[r].pc \in {"number", "write", "logging", "count", "counted", "cancel", "remove"}
  /\ Fails(r)

Creation == CreateRow \/ CreateNumber \/ CreateVersion \/ Enqueue
Persist  == PersistBegin \/ PersistInPlace \/ PersistNumber \/ PersistWrite
History(r) == SnapshotBegin(r) \/ RevertBegin(r) \/ Number(r) \/ SnapshotWrite(r)
                \/ RevertWrite(r)
Discuss(r) == CommentBegin(r) \/ CommentWrite(r) \/ ResolveBegin(r) \/ ResolveWrite(r)
                \/ UncommentBegin(r) \/ UncommentWrite(r)
Share(r) == ShareBegin(r) \/ ShareWrite(r) \/ RevokeBegin(r) \/ RevokeWrite(r)
                \/ ViewBegin(r) \/ ViewCount(r) \/ ViewLoad(r)
Edit(r) == EditBegin(r) \/ EditWrite(r)
Delete(r) == DeleteBegin(r) \/ DeleteCancel(r) \/ DeleteRemove(r)

Next == \/ Creation \/ Persist
        \/ \E r \in Requests : \/ History(r) \/ Discuss(r) \/ Share(r) \/ Edit(r) \/ Delete(r)
                               \/ Abort(r)

Spec == Init /\ [][Next]_vars

-----------------------------------------------------------------------------
(* Properties *)

TypeOK ==
  /\ row \in {"absent", "live", "cancelled", "gone"} /\ config \in Configs
  /\ creator.pc \in {"row", "number", "write", "enqueue", "queued", "failed"}
  /\ versions \subseteq VersionRows /\ IsFiniteSet(versions)
  /\ comments \subseteq CommentRows /\ shares \subseteq ShareRows /\ audit \subseteq AuditRows
  /\ persists \in 0..MaxPersists
  /\ worker.pc \in {"idle", "compare", "write"}
  /\ \A x \in {creator, worker} \cup {req[r] : r \in Requests} :
       x.num \in Nat /\ x.conf \in Configs \cup {None}

\* The versions of an analysis are numbered 1 to n, each once, although the next
\* number is the maximum read in another statement than the insert
\* (crud/analysis_version.py:118).
NumbersContiguous == {v.number : v \in versions} = 1..Cardinality(versions)

\* The configuration the analysis has is in its history, as soon as it has one,
\* whichever of EDA, snapshots, reverts and the creation overlap.
ConfigInHistory ==
  versions # {} => config \in {v.config : v \in versions}

\* What the log must hold of a version: EDA's is told by its configuration only
\* (crud/analysis.py:169-172), the others by their number as well.
Logged(v) ==
  CASE v.kind = "initial" -> Entry("create", 0, v.config)
    [] v.kind = "auto"    -> Entry("update", 0, v.config)
    [] OTHER              -> Entry(v.kind, v.number, v.config)

\* The audit log tells of no configuration that is not a version's, with the
\* number of that version if it names one, and misses no version but perhaps the
\* first, however requests overlap and end (version, configuration and audit
\* entry are flushed one after the other, crud/analysis.py:146-196; the entry of
\* the creation is committed after the first version, api/v1/analyses.py:271-315).
AuditTrail ==
  There =>
    LET told == {a \in audit : a.config # None} IN
    /\ told \subseteq {Logged(v) : v \in versions}
    /\ {Logged(v) : v \in {w \in versions : w.kind # "initial"}} \subseteq told

\* Of an analysis that is gone nothing is left, also not of what requests added
\* while it was deleted, and the audit log says so.
NothingOrphaned ==
  /\ row \in {"absent", "gone"} =>
       versions = {} /\ comments = {} /\ shares = {} /\ graphs = {}
  /\ row \in {"cancelled", "gone"} => Bare("delete") \in audit

\* A comment or a link appears by the commit of the request that makes it and in
\* no other way: one that was deleted or revoked, alone or with the analysis,
\* does not come back through a request that has loaded it before and writes it
\* afterwards (comments.py:421, sharing.py:466).
Ids == {c.id : c \in comments} \cup {s.token : s \in shares}

RowsStayGone ==
  [][\A r \in Requests : r \in Ids' \ Ids =>
       req[r].pc = "write" /\ req[r].op \in {"comment", "share"}]_vars

\* A link never counts more views than were let through, and one that was
\* viewed counts at least one (sharing.py:466, read, add and write back).
ViewsCounted ==
  \A s \in shares :
    LET viewers == {r \in Requests : /\ req[r].op = "view" /\ req[r].key = s.token
                                     /\ req[r].pc \notin {"count"}}
        let == {r \in viewers : req[r].pc \in {"counted", "served", "notfound"}}
    IN s.views <= Cardinality(viewers) /\ (let # {} => s.views >= 1)

\* The nodes that can be reached from n along edges, without the search, the
\* reference for HasCycle: those in every set that has the successors of n and,
\* with each node, its successors.
Successors(edges, n) == {edges[i][2] : i \in {j \in DOMAIN edges : edges[j][1] = n}}
ClosedUnder(edges, S) == \A n \in S : Successors(edges, n) \subseteq S
Reach(edges, n) ==
  {m \in Nodes(edges) : \A S \in SUBSET Nodes(edges) :
     Successors(edges, n) \subseteq S /\ ClosedUnder(edges, S) => m \in S}

Cyclic == {edges \in GraphEdits : \E n \in Nodes(edges) : n \in Reach(edges, n)}

\* Exactly the graphs in which some node reaches itself are refused, and what is
\* stored as edited by a user is acyclic (_has_cycle).
CyclesRefused ==
  /\ \A r \in Requests : req[r].op = "edit" =>
       (req[r].pc = "refused" <=> req[r].rest \in Cyclic)
  /\ \A g \in graphs : g.user => g.edges \notin Cyclic

=============================================================================
