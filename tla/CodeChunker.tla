---------------------------- MODULE CodeChunker -----------------------------
(***************************************************************************)
(* CodeChunker::chunk (semfs-core/src/indexer/chunker/code.rs): a walk over*)
(* the syntax tree. A node has a kind, the chunk type of its grammar kind  *)
(* or "Other", and may be tiny (a trimmed text below five bytes). Nodes are*)
(* numbered in document order; the root is 1. The recursion of walk_tree is*)
(* an explicit stack of calls still to be made.                            *)
(***************************************************************************)
EXTENDS Chunks

CONSTANT MaxNodes   \* bound: nodes of a syntax tree

VARIABLES tree,     \* the nodes: kind, parent node and size
          walk      \* calls of walk_tree still to be made, first one first

codeVars == <<tree, walk>>

NodeKind == {"Module", "Class", "Function", "Other"}

\* The nodes above each node of tree t.
Above(t) ==
  LET a[i \in 1..Len(t)] == IF t[i].up = 0 THEN {} ELSE {t[i].up} \cup a[t[i].up]
  IN  a

\* The root is a source file, or an ERROR node when nothing could be parsed. A
\* further node stands below the last one or below a node above that; a node
\* within a tiny one is tiny.
Roots == {[kind |-> k, up |-> 0, tiny |-> b] : k \in {"Module", "Other"}, b \in BOOLEAN}
NextNodes ==
  {x \in [kind : NodeKind, up : {Len(tree)} \cup Above(tree)[Len(tree)], tiny : BOOLEAN] :
     tree[x.up].tiny => x.tiny}

\* The tree a parser gives, a node at a time.
GrowTree ==
  /\ phase = "choose" /\ Len(tree) < MaxNodes
  /\ \E x \in IF tree = << >> THEN Roots ELSE NextNodes : tree' = Append(tree, x)
  /\ UNCHANGED <<phase, chunks, walk>>

CodeTypeOK ==
  \A i \in 1..Len(walk) : walk[i].node \in 1..Len(tree) /\ walk[i].parent \in 0..Len(chunks)

NoCode == tree = << >> /\ walk = << >>

\* Blank content gives no chunks. Without a grammar or a tree the file is one
\* chunk, and so it is when the walk has found nothing.
WholeFile(t) == <<ChunkData("File", 1..Len(t), 0)>>

BeginCode ==
  /\ phase = "choose"
  /\ \/ /\ tree # << >> /\ phase' = "nodes"
        /\ walk' = <<[parent |-> 0, node |-> 1]>> /\ UNCHANGED chunks
     \/ /\ phase' = "done" /\ UNCHANGED walk
        /\ chunks' = IF tree = << >> THEN << >> ELSE WholeFile(tree)
  /\ UNCHANGED tree

-----------------------------------------------------------------------------
\* node_to_chunk_type gives a type, and the node is not skipped for its size.
Worthy(n) == tree[n].kind # "Other"
TooSmall(n) == tree[n].tiny /\ tree[n].kind \in {"Class", "Function"}

\* The calls for the nodes c below a node, in order.
Below(n) == Ascending({c \in 1..Len(tree) : tree[c].up = n})

\* Mutated form: a node is the child of what its parent hangs on.
CallsFlat(n, parent) ==
  [i \in 1..Len(Below(n)) |-> [parent |-> Head(walk).parent, node |-> Below(n)[i]]]

Calls(n, parent) ==
  [i \in 1..Len(Below(n)) |-> [parent |-> parent, node |-> Below(n)[i]]]

\* A module's content is left empty: it is that of the whole file.
Content(n) == IF tree[n].kind = "Module" THEN {} ELSE {n}

WalkTree ==
  /\ phase = "nodes" /\ walk # << >>
  /\ LET n == Head(walk).node  rest == Tail(walk) IN
       \/ /\ Worthy(n) /\ TooSmall(n)
          /\ walk' = rest /\ UNCHANGED chunks
       \/ /\ Worthy(n) /\ ~TooSmall(n)
          /\ chunks' = Append(chunks, ChunkData(tree[n].kind, Content(n), Head(walk).parent))
          /\ walk' = Calls(n, Len(chunks) + 1) \o rest
       \/ /\ ~Worthy(n)
          /\ walk' = Calls(n, Head(walk).parent) \o rest /\ UNCHANGED chunks
  /\ UNCHANGED <<phase, tree>>

EndOfWalk ==
  /\ phase = "nodes" /\ walk = << >> /\ phase' = "done"
  /\ chunks' = IF chunks = << >> THEN WholeFile(tree) ELSE chunks
  /\ UNCHANGED codeVars

CodeStep == WalkTree \/ EndOfWalk

-----------------------------------------------------------------------------
CodeDone == phase = "done" /\ tree # << >>

\* The nodes that are to have a chunk, in document order.
Kept ==
  {n \in 1..Len(tree) : Worthy(n) /\ ~\E a \in {n} \cup Above(tree)[n] : TooSmall(a)}

(* The chunks are the functions, classes and modules of the tree in        *)
(* document order, each with its nearest chunk above as parent; a file in  *)
(* which there are none is one chunk, so that no code file with text is    *)
(* left without a chunk (code.rs:66-119, 153-160).                         *)
ChunksAreTheTree ==
  CodeDone =>
    \/ chunks = WholeFile(tree)
    \/ /\ Kept # {}
       /\ Len(chunks) = Cardinality(Kept)
       /\ \A n \in Kept :
            LET c == chunks[Place(n, Kept)]  over == Above(tree)[n] \cap Kept IN
            /\ c.type = tree[n].kind /\ c.content = Content(n)
            /\ c.parent = IF over = {} THEN 0 ELSE Place(Max(over), Kept)
=============================================================================
