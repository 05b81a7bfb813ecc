--------------------------- MODULE ContextCommands ---------------------------
(***************************************************************************)
(* The commands over packages/context: `aice context build` walks the      *)
(* workspace, reads and indexes its files and packs the best of them,      *)
(* while an agent or the operator goes on changing them; `aice route`, and *)
(* the vote of a debate, are answered at once.  Links here point to files  *)
(* outside the workspace, and the root itself can be listed and entered.   *)
(***************************************************************************)
EXTENDS Retrieval, Routing

CONSTANTS
    Parent,         \* the directory of each path, 0 for the root
    Above,          \* all the directories above each path but the root
    Hidden,         \* paths whose name starts with a dot
    Secret,         \* paths of key material and the like
    Excluded,       \* names of directories that are not walked
    Tokens,         \* per path, the tokens of its text
    ChunkTokens,    \* the tokens of a chunk that was cut
    Inputs, Debates,    \* what is routed and voted on
    MaxIndexFiles,  \* MAX_INDEX_FILES
    MaxFiles,       \* files packed at most
    MaxTokens,      \* the budget
    MaxChanges      \* bound: changes of the workspace

ASSUME ContextAssumption ==
    /\ Parent \in [Paths -> Paths \cup {0}]
    /\ IsFiniteSet(Paths)
    /\ \A p \in Paths :
        /\ Parent[p] < p
        /\ Above[p] = IF Parent[p] = 0 THEN {} ELSE {Parent[p]} \cup Above[Parent[p]]
    /\ Tokens \in [Paths -> Nat \ {0}] /\ ChunkTokens \in Nat \ {0}
    /\ \A input \in Inputs : IsInput(input)
    /\ Debates \subseteq Seq(Answer)
    /\ {MaxIndexFiles, MaxFiles, MaxTokens, MaxChanges} \subseteq Nat

Regular == {"text", "binary", "big", "unreadable"}

(* A directory may be closed to this process: it cannot be listed, or it   *)
(* lists but what is in it can be neither looked at nor opened.            *)
Directory == {"dir", "unlistable", "unsearchable"}

Node == {"absent", "link"} \cup Regular \cup Directory

VARIABLES
    tree,           \* what is at each path
    changes, dirty, \* changes so far, and the paths changed since the build began
    step,           \* "idle", "walk", "read", "pack", "done"
    queue, entries, \* directories to walk, names left in the one being walked
    current, count, \* the file being read, and the files yielded
    files, texts, skipped,  \* the index: entries, those with symbols, skipped
    ranked, chunks, \* files still to pack, and the chunks made
    pack,           \* what the budget kept and dropped
    answer          \* the answer of a route or a vote

contextVars == <<tree, changes, dirty, step, queue, entries, current, count, files,
          texts, skipped, ranked, chunks, pack, answer>>

build == <<dirty, step, queue, entries, current, count, files, texts, skipped,
           ranked, chunks, pack>>

ContextTypeOK ==
    /\ tree \in [Paths -> Node]
    /\ changes \in 0 .. MaxChanges
    /\ dirty \subseteq Paths
    /\ step \in {"idle", "walk", "read", "pack", "done"}
    /\ current \in Paths \cup {Nothing}
    /\ count \in Nat
    /\ files \subseteq Paths /\ texts \subseteq files /\ skipped \subseteq Paths
    /\ \A s \in {queue, entries, ranked} : \A i \in DOMAIN s : s[i] \in Paths \cup {0}

NoPack == [kept |-> <<>>, dropped |-> <<>>]

Idle ==
    /\ step = "idle"
    /\ queue = <<>> /\ entries = <<>> /\ current = Nothing /\ count = 0
    /\ files = {} /\ texts = {} /\ skipped = {}
    /\ ranked = <<>> /\ chunks = <<>> /\ pack = NoPack

ContextInit ==
    /\ tree \in [Paths -> {"text"} \cup Directory]
    /\ \A p \in Paths : tree[p] \in Directory <=> (\E q \in Paths : Parent[q] = p)
    /\ changes = 0 /\ dirty = {} /\ answer = Nothing
    /\ Idle

-----------------------------------------------------------------------------
(* The workspace.                                                          *)

Below(p) == {q \in Paths : p \in Above[q]}

(* What was below a directory goes with it, unless it is only opened or    *)
(* closed.  (Changes before the first build are the first tree: bound.)    *)
Change(p, node) ==
    /\ changes < MaxChanges /\ step # "idle"
    /\ changes' = changes + 1
    /\ Parent[p] # 0 => tree[Parent[p]] \in Directory
    /\ node # tree[p]
    /\ LET gone == IF {node, tree[p]} \subseteq Directory THEN {} ELSE Below(p)
       IN tree' = [q \in Paths |->
                     IF q = p THEN node ELSE IF q \in gone THEN "absent" ELSE tree[q]]
    /\ dirty' = dirty \cup {p} \cup Below(p)
    /\ UNCHANGED <<step, queue, entries, current, count, files, texts, skipped,
                   ranked, chunks, pack, answer>>

-----------------------------------------------------------------------------
(* buildRepoIndex over walk.                                               *)

Start ==
    /\ step \in {"idle", "done"}
    /\ answer = Nothing
    /\ step' = "walk" /\ queue' = <<0>> /\ entries' = <<>>
    /\ current' = Nothing /\ count' = 0
    /\ files' = {} /\ texts' = {} /\ skipped' = {}
    /\ ranked' = <<>> /\ chunks' = <<>> /\ pack' = NoPack
    /\ dirty' = {}
    /\ UNCHANGED <<tree, changes, answer>>

Children(d) ==
    LET names == {p \in Paths : Parent[p] = d /\ tree[p] # "absent"}
    IN InOrder(names, {e \in names \X names : e[1] < e[2]})

(* Every directory on the way to a path can be entered.                    *)
Reachable(p) == \A d \in Above[p] : tree[d] \in {"dir", "unlistable"}

(* readdirSync returns: it fails, silently, when the directory is gone, is *)
(* out of reach or cannot be listed.                                       *)
Listed(d) == d = 0 \/ (Reachable(d) /\ tree[d] \in {"dir", "unsearchable"})

(* The next directory; one that does not list has no entries.              *)
NextDir ==
    /\ step = "walk"
    /\ entries = <<>> /\ queue # <<>>
    /\ LET d == Head(queue) IN entries' = IF Listed(d) THEN Children(d) ELSE <<>>
    /\ queue' = Tail(queue)
    /\ UNCHANGED <<tree, changes, dirty, step, current, count, files, texts, skipped,
                   ranked, chunks, pack, answer>>

(* A file the walk yields: one whose lstat returns, and a hidden one only  *)
(* when it is to be recorded as skipped.                                   *)
Yields(p) == Reachable(p) /\ tree[p] \in Regular /\ (p \in Hidden => p \in Secret)

(* A directory the walk goes on to.                                        *)
Enters(p) == Reachable(p) /\ tree[p] \in Directory /\ p \notin Excluded

(* Mutant: the walk stops one file early.                                  *)
FullEarly == count + 1 >= MaxIndexFiles

Full == count + 1 > MaxIndexFiles

(* lstat of the next entry.  Links, and what lstat fails for, are passed   *)
(* over without a record; the walk ends at the file beyond the cap; key    *)
(* material is skipped unread.                                             *)
Visit ==
    /\ step = "walk"
    /\ entries # <<>>
    /\ LET p == Head(entries) IN
        IF Yields(p)
        THEN /\ count' = count + 1
             /\ entries' = IF Full THEN <<>> ELSE Tail(entries)
             /\ queue' = IF Full THEN <<>> ELSE queue
             /\ skipped' = IF ~Full /\ p \in Secret THEN skipped \cup {p} ELSE skipped
             /\ IF Full \/ p \in Secret THEN UNCHANGED <<step, current>>
                ELSE step' = "read" /\ current' = p
        ELSE /\ entries' = Tail(entries)
             /\ queue' = IF Enters(p) THEN Append(queue, p) ELSE queue
             /\ UNCHANGED <<step, current, count, skipped>>
    /\ UNCHANGED <<tree, changes, dirty, files, texts, ranked, chunks, pack, answer>>

Opens(p) == Reachable(p) /\ tree[p] \notin {"absent", "unreadable"} \cup Directory

(* readFileSync of the yielded file, as it is by now; a big one is entered *)
(* and skipped, of a text the symbols and imports are extracted.           *)
Read ==
    /\ step = "read"
    /\ files' = IF Opens(current) THEN files \cup {current} ELSE files
    /\ texts' = IF Opens(current) /\ tree[current] \in {"text", "link"}
                THEN texts \cup {current} ELSE texts
    /\ skipped' = IF Opens(current) /\ tree[current] # "big" THEN skipped
                  ELSE skipped \cup {current}
    /\ step' = "walk" /\ current' = Nothing
    /\ UNCHANGED <<tree, changes, dirty, queue, entries, count, ranked, chunks, pack, answer>>

(* The index is complete and persisted below .aice, which is not walked.   *)
Index ==
    /\ step = "walk"
    /\ entries = <<>> /\ queue = <<>>
    /\ step' = "pack"
    /\ ranked' = LET r == Rank(files, texts) IN
                 SubSeq(r, 1, IF Len(r) < MaxFiles THEN Len(r) ELSE MaxFiles)
    /\ UNCHANGED <<tree, changes, dirty, queue, entries, current, count, files, texts,
                   skipped, chunks, pack, answer>>

-----------------------------------------------------------------------------
(* packWorkspace.                                                          *)

(* The file is read once more, filtered and cut.                           *)
Chunk(p) == [path |-> p, tokens |-> IF tree[p] = "big" THEN ChunkTokens ELSE Tokens[p]]

PackNext ==
    /\ step = "pack"
    /\ ranked # <<>>
    /\ ranked' = Tail(ranked)
    /\ chunks' = IF Opens(Head(ranked)) THEN Append(chunks, Chunk(Head(ranked))) ELSE chunks
    /\ UNCHANGED <<tree, changes, dirty, step, queue, entries, current, count, files,
                   texts, skipped, pack, answer>>

Packed ==
    /\ step = "pack"
    /\ ranked = <<>>
    /\ pack' = FitBudget(chunks, MaxTokens)
    /\ step' = "done"
    /\ UNCHANGED <<tree, changes, dirty, queue, entries, current, count, files, texts,
                   skipped, ranked, chunks, answer>>

-----------------------------------------------------------------------------
(* `aice route`, and a debate.                                             *)

Route(input) ==
    /\ answer' = LET i == [input EXCEPT !.task = Classify(input.task)] IN
        [input |-> input, route |-> RouteTask(i),
         escalated |-> RouteTask(Escalate(Escalate(i)))]
    /\ UNCHANGED <<tree, changes, build>>

Debate(answers) ==
    /\ answer' = [answers |-> answers, vote |-> DebateVote(answers)]
    /\ UNCHANGED <<tree, changes, build>>

Ask ==
    /\ step = "idle" /\ answer = Nothing
    /\ \/ \E input \in Inputs : Route(input)
       \/ \E answers \in Debates : Debate(answers)

(* The command has printed its answer.                                     *)
Reply ==
    /\ answer # Nothing
    /\ answer' = Nothing
    /\ UNCHANGED <<tree, changes, build>>

ContextBuild == Start \/ NextDir \/ Visit \/ Read \/ Index \/ PackNext \/ Packed

ContextNext ==
    \/ ContextBuild
    \/ \E p \in Paths, node \in Node : Change(p, node)
    \/ Ask
    \/ Reply

ContextSpec == ContextInit /\ [][ContextNext]_contextVars

=============================================================================
