--------------------------- MODULE TreesAndGraphs ---------------------------
(***************************************************************************)
(* The trees and graphs of labs/06-trees-and-graphs: the left-leaning      *)
(* red-black index, the unbalanced search tree, the rooted tree with its   *)
(* index by value, the two graphs, which keep their nodes and edges in the *)
(* order of insertion, and the plan that joins graph and index.  A         *)
(* behaviour is a sequence of legal calls on one of them.                  *)
(***************************************************************************)
EXTENDS Integers, SequencesExt

CONSTANTS
    Priority,    \* priorities of tasks
    Task,        \* task ids, which are also the nodes of the graph
    Value,       \* values of the search trees
    Weight,      \* weights of edges
    MaxEdges     \* bound on the edges of the graph

VARIABLES
    subject,     \* the structure of this behaviour
    index,       \* RedBlackTree._root
    search,      \* BinarySearchTree._root
    size,        \* their _size
    content,     \* ghost: what the calls on the search tree or the index have put
    graph,       \* DirectedGraph or WeightedGraph
    after,       \* ghost: dependencies of the plan's tasks
    rooted       \* Tree: the nodes by identity and _nodes by value

vars == <<subject, index, search, size, content, graph, after, rooted>>

Nil == <<>>

\* The keys of RelayPlan's index: highest priority first, then the task id.
IndexKey == {<<-p, t>> : p \in Priority, t \in Task}

Less(a, b) == a[1] < b[1] \/ (a[1] = b[1] /\ a[2] < b[2])

-----------------------------------------------------------------------------
(* The left-leaning red-black tree.                                        *)

Leaf(key, value) == [key |-> key, value |-> value, red |-> TRUE, left |-> Nil, right |-> Nil]

IsRed(node) == node # Nil /\ node.red

RotateLeft(node) ==
    [node.right EXCEPT !.red = node.red,
                       !.left = [node EXCEPT !.right = node.right.left, !.red = TRUE]]

RotateRight(node) ==
    [node.left EXCEPT !.red = node.red,
                      !.right = [node EXCEPT !.left = node.left.right, !.red = TRUE]]

FlipColors(node) ==
    [node EXCEPT !.red = ~@, !.left.red = ~@, !.right.red = ~@]

\* A mutant: a black left child is taken for a red one.
BugLeansRight(node) == IsRed(node.right) /\ node.left = Nil

LeansRight(node) == IsRed(node.right) /\ ~IsRed(node.left)

\* _insert on its way up: the three repairs, in this order.
Repaired(node) ==
    LET leaning == IF LeansRight(node) THEN RotateLeft(node) ELSE node
        single == IF IsRed(leaning.left) /\ IsRed(leaning.left.left)
                  THEN RotateRight(leaning) ELSE leaning
    IN IF IsRed(single.left) /\ IsRed(single.right) THEN FlipColors(single) ELSE single

RECURSIVE Insert(_, _, _)
Insert(node, key, value) ==
    IF node = Nil THEN Leaf(key, value)
    ELSE Repaired(CASE Less(key, node.key) -> [node EXCEPT !.left = Insert(@, key, value)]
                    [] Less(node.key, key) -> [node EXCEPT !.right = Insert(@, key, value)]
                    [] OTHER -> [node EXCEPT !.value = value])

RedBlackPut(root, key, value) == [Insert(root, key, value) EXCEPT !.red = FALSE]

\* get, which goes down one path.
RECURSIVE Found(_, _)
Found(node, key) ==
    IF node = Nil THEN {}
    ELSE CASE Less(key, node.key) -> Found(node.left, key)
           [] Less(node.key, key) -> Found(node.right, key)
           [] OTHER -> {node.value}

RECURSIVE Items(_)
Items(node) ==
    IF node = Nil THEN <<>>
    ELSE Items(node.left) \o <<<<node.key, node.value>>>> \o Items(node.right)

\* validate: the black height, or a negative number for a broken tree.
RECURSIVE BlackHeight(_)
BlackHeight(node) ==
    IF node = Nil THEN 1
    ELSE LET left == BlackHeight(node.left)
         IN IF \/ IsRed(node.right)
               \/ IsRed(node) /\ IsRed(node.left)
               \/ left # BlackHeight(node.right)
               \/ left < 0
            THEN -1
            ELSE left + (IF node.red THEN 0 ELSE 1)

-----------------------------------------------------------------------------
(* The unbalanced search tree.                                             *)

Branch(key, value, left, right) == [key |-> key, value |-> value, left |-> left, right |-> right]

RECURSIVE Put(_, _, _)
Put(node, key, value) ==
    IF node = Nil THEN Branch(key, value, Nil, Nil)
    ELSE CASE Less(key, node.key) -> [node EXCEPT !.left = Put(@, key, value)]
           [] Less(node.key, key) -> [node EXCEPT !.right = Put(@, key, value)]
           [] OTHER -> [node EXCEPT !.value = value]

RECURSIVE Leftmost(_)
Leftmost(node) == IF node.left = Nil THEN node ELSE Leftmost(node.left)

RECURSIVE DeleteSuccessor(_, _)
DeleteSuccessor(node, key) ==
    IF Less(key, node.key) THEN [node EXCEPT !.left = DeleteSuccessor(@, key)] ELSE node.right

RECURSIVE Delete(_, _)
Delete(node, key) ==
    CASE node = Nil -> Nil
      [] node # Nil /\ Less(key, node.key) -> [node EXCEPT !.left = Delete(@, key)]
      [] node # Nil /\ Less(node.key, key) -> [node EXCEPT !.right = Delete(@, key)]
      [] OTHER ->
            IF node.left = Nil THEN node.right
            ELSE IF node.right = Nil THEN node.left
            ELSE LET next == Leftmost(node.right)
                 IN Branch(next.key, next.value, node.left, DeleteSuccessor(node.right, next.key))

RECURSIVE Height(_)
Height(node) ==
    IF node = Nil THEN -1
    ELSE LET left == Height(node.left)
             right == Height(node.right)
         IN 1 + (IF left > right THEN left ELSE right)

\* rebalance builds from the ordered items, start to end exclusive, counted from 0.
RECURSIVE Build(_, _, _)
Build(ordered, start, end) ==
    IF start >= end THEN Nil
    ELSE LET middle == (start + end) \div 2
         IN Branch(ordered[middle + 1][1], ordered[middle + 1][2],
                   Build(ordered, start, middle), Build(ordered, middle + 1, end))

\* preorder, postorder and level_order of the search tree.
RECURSIVE KeysDown(_)
KeysDown(node) ==
    IF node = Nil THEN <<>> ELSE <<node.key>> \o KeysDown(node.left) \o KeysDown(node.right)

RECURSIVE KeysUp(_)
KeysUp(node) ==
    IF node = Nil THEN <<>> ELSE Append(KeysUp(node.left) \o KeysUp(node.right), node.key)

RECURSIVE LevelOrder(_)
LevelOrder(queue) ==
    IF queue = <<>> THEN <<>>
    ELSE LET node == Head(queue)
         IN <<node.key>> \o
            LevelOrder(Tail(queue) \o SelectSeq(<<node.left, node.right>>, LAMBDA kid : kid # Nil))

Rebalanced(root) == Build(Items(root), 0, Len(Items(root)))

-----------------------------------------------------------------------------
(* Both graphs: the nodes in the order they came, and for each its edges   *)
(* <<target, weight>> in the order they came.                              *)

NodesOf(g) == ToSet(g.nodes)
TargetsOf(g, n) == [i \in DOMAIN g.next[n] |-> g.next[n][i][1]]
HasEdge(g, s, t) == s \in NodesOf(g) /\ t \in ToSet(TargetsOf(g, s))
WeightOf(g, s, t) == g.next[s][CHOOSE i \in DOMAIN g.next[s] : g.next[s][i][1] = t][2]
EdgeCount(g) == FoldLeft(LAMBDA sum, n : sum + Len(g.next[n]), 0, g.nodes)

WithNode(g, n) ==
    IF n \in NodesOf(g) THEN g
    ELSE [nodes |-> Append(g.nodes, n), next |-> [g.next EXCEPT ![n] = <<>>]]

\* An edge that is added again takes the new weight and keeps its place.
WithEdge(g, s, t, w) ==
    LET both == WithNode(WithNode(g, s), t)
    IN IF HasEdge(g, s, t)
       THEN [g EXCEPT !.next[s] = [i \in DOMAIN @ |-> IF @[i][1] = t THEN <<t, w>> ELSE @[i]]]
       ELSE [both EXCEPT !.next[s] = Append(@, <<t, w>>)]

WithoutEdge(g, s, t) ==
    [g EXCEPT !.next[s] = SelectSeq(@, LAMBDA e : e[1] # t)]

WithoutNode(g, n) ==
    [nodes |-> SelectSeq(g.nodes, LAMBDA m : m # n),
     next |-> [m \in Task |-> IF m = n THEN <<>>
                              ELSE SelectSeq(g.next[m], LAMBDA e : e[1] # n)]]

Indegree(g) == [n \in NodesOf(g) |-> Cardinality({m \in NodesOf(g) : HasEdge(g, m, n)})]

\* Kahn's algorithm: the order it reaches, which lacks the nodes a cycle blocks.
RECURSIVE Kahn(_, _, _, _)
Kahn(g, ready, ordered, indegree) ==
    IF ready = <<>> THEN ordered
    ELSE LET targets == TargetsOf(g, Head(ready))
             left == [n \in DOMAIN indegree |->
                         IF n \in ToSet(targets) THEN indegree[n] - 1 ELSE indegree[n]]
         IN Kahn(g, Tail(ready) \o SelectSeq(targets, LAMBDA n : left[n] = 0),
                 Append(ordered, Head(ready)), left)

TopologicalOrder(g) ==
    Kahn(g, SelectSeq(g.nodes, LAMBDA n : Indegree(g)[n] = 0), <<>>, Indegree(g))

\* Breadth first, as shortest_path does it: each node found with the node before it.
RECURSIVE Previous(_, _, _)
Previous(g, queue, previous) ==
    IF queue = <<>> THEN previous
    ELSE LET fresh == SelectSeq(TargetsOf(g, Head(queue)), LAMBDA n : n \notin DOMAIN previous)
         IN Previous(g, Tail(queue) \o fresh,
                     [n \in DOMAIN previous \union ToSet(fresh) |->
                         IF n \in DOMAIN previous THEN previous[n] ELSE Head(queue)])

RECURSIVE Back(_, _)
Back(previous, n) == IF n = 0 THEN <<>> ELSE Append(Back(previous, previous[n]), n)

ShortestPath(g, s, t) == Back(Previous(g, <<s>>, [n \in {s} |-> 0]), t)

\* breadth_first: a node is marked when it is queued.
RECURSIVE BreadthFirst(_, _, _)
BreadthFirst(g, queue, order) ==
    IF queue = <<>> THEN order
    ELSE LET visited == ToSet(order) \union ToSet(queue)
         IN BreadthFirst(g, Tail(queue) \o SelectSeq(TargetsOf(g, Head(queue)),
                                                    LAMBDA n : n \notin visited),
                         Append(order, Head(queue)))

\* depth_first: a node is visited when it is popped, its first neighbour next.
RECURSIVE DepthFirst(_, _, _)
DepthFirst(g, stack, order) ==
    IF stack = <<>> THEN order
    ELSE IF Last(stack) \in ToSet(order) THEN DepthFirst(g, Front(stack), order)
    ELSE DepthFirst(g, Front(stack) \o Reverse(TargetsOf(g, Last(stack))),
                    Append(order, Last(stack)))

\* Whatever is unknown is further than every path of the instance.
Infinity == 1000

\* One node of Dijkstra's algorithm: every neighbour that comes nearer is queued again.
Nearer(g, state, node, e) ==
    LET candidate == state.distance[node] + e[2]
    IN IF candidate < state.distance[e[1]]
       THEN [state EXCEPT !.queue = Append(@, <<candidate, e[1]>>),
                          !.distance[e[1]] = candidate,
                          !.previous[e[1]] = node]
       ELSE state

\* The heap gives the nearest entry, of equally near ones the oldest.
RECURSIVE Dijkstra(_, _)
Dijkstra(g, state) ==
    IF state.queue = <<>> THEN state
    ELSE LET queue == state.queue
             first == CHOOSE i \in DOMAIN queue :
                        \A j \in DOMAIN queue :
                            queue[i][1] < queue[j][1] \/ (queue[i][1] = queue[j][1] /\ i <= j)
             node == queue[first][2]
             rest == [state EXCEPT !.queue = RemoveAt(queue, first)]
         IN IF queue[first][1] # state.distance[node] THEN Dijkstra(g, rest)
            ELSE IF \E i \in DOMAIN g.next[node] : g.next[node][i][2] < 0
            THEN [state EXCEPT !.queue = <<>>, !.refused = TRUE]
            ELSE Dijkstra(g, FoldLeft(LAMBDA s, e : Nearer(g, s, node, e), rest, g.next[node]))

Start(g, s) ==
    [queue |-> <<<<0, s>>>>,
     distance |-> [n \in NodesOf(g) |-> IF n = s THEN 0 ELSE Infinity],
     previous |-> [n \in NodesOf(g) |-> 0],
     refused |-> FALSE]

ShortestPaths(g, s) == Dijkstra(g, Start(g, s))

\* edges(), each as <<start, end, weight>>.
Edges(g) ==
    FoldLeft(LAMBDA all, n : all \o [i \in DOMAIN g.next[n] |-> <<n>> \o g.next[n][i]], <<>>, g.nodes)

Shortens(state, e) ==
    /\ state.distance[e[1]] # Infinity
    /\ state.distance[e[1]] + e[3] < state.distance[e[2]]

Relax(state, e) ==
    IF Shortens(state, e)
    THEN [state EXCEPT !.distance[e[2]] = state.distance[e[1]] + e[3], !.previous[e[2]] = e[1]]
    ELSE state

\* A round that changes nothing ends the loop early; the rounds after it change nothing.
RECURSIVE Rounds(_, _, _)
Rounds(g, state, left) ==
    IF left <= 0 THEN state ELSE Rounds(g, FoldLeft(Relax, state, Edges(g)), left - 1)

BellmanFord(g, s) ==
    LET end == Rounds(g, Start(g, s), Len(g.nodes) - 1)
    IN IF \E i \in DOMAIN Edges(g) : Shortens(end, Edges(g)[i])
       THEN [end EXCEPT !.refused = TRUE] ELSE end

\* routing_table: the first hop of the path to every destination it reaches.
NextHop(g, root, target) ==
    LET path == Back(ShortestPaths(g, root).previous, target)
    IN IF Len(path) > 1 THEN path[2] ELSE root

-----------------------------------------------------------------------------
(* The rooted tree: nodes are objects with a value and children, and       *)
(* _nodes finds the object of a value.                                     *)

Object == 1..Cardinality(Task)

RECURSIVE Preorder(_, _)
Preorder(kids, n) ==
    FoldLeft(LAMBDA found, kid : found \o Preorder(kids, kid), <<n>>, kids[n])

RECURSIVE Postorder(_, _)
Postorder(kids, n) ==
    Append(FoldLeft(LAMBDA found, kid : found \o Postorder(kids, kid), <<>>, kids[n]), n)

RECURSIVE ByDepth(_, _)
ByDepth(kids, queue) ==
    IF queue = <<>> THEN <<>>
    ELSE <<Head(queue)>> \o ByDepth(kids, Tail(queue) \o kids[Head(queue)])

\* height: the queue holds nodes with their depths, and the last one is the deepest.
RECURSIVE TreeHeight(_, _, _)
TreeHeight(kids, queue, highest) ==
    IF queue = <<>> THEN highest
    ELSE LET depth == Head(queue)[2]
             below == [i \in DOMAIN kids[Head(queue)[1]] |-> <<kids[Head(queue)[1]][i], depth + 1>>]
         IN TreeHeight(kids, Tail(queue) \o below, IF depth > highest THEN depth ELSE highest)

ValuesFrom(n) == LET order == Preorder(rooted.kids, n) IN [i \in DOMAIN order |-> rooted.value[order[i]]]

FreeObject == CHOOSE n \in Object : n \notin ToSet(Preorder(rooted.kids, 1))

ParentOf(n) == CHOOSE m \in Object : n \in ToSet(rooted.kids[m])

Known == {v \in Task : rooted.node[v] # 0}

Init ==
    /\ subject \in {"index", "search", "graph", "plan", "tree"}
    /\ index = Nil
    /\ search = Nil
    /\ size = 0
    /\ content = [k \in {} |-> 0]
    /\ graph = [nodes |-> <<>>, next |-> [n \in Task |-> <<>>]]
    /\ after = [t \in {} |-> {}]
    /\ LET root == CHOOSE t \in Task : TRUE
       IN rooted = [value |-> [n \in Object |-> root], kids |-> [n \in Object |-> <<>>],
                    node |-> [v \in Task |-> IF v = root THEN 1 ELSE 0]]

With(key, value) ==
    [k \in DOMAIN content \union {key} |-> IF k = key THEN value ELSE content[k]]

Without(key) == [k \in DOMAIN content \ {key} |-> content[k]]

Grown(root, key) == IF Found(root, key) = {} THEN size + 1 ELSE size

PutIndex(key, value) ==
    /\ index' = RedBlackPut(index, key, value)
    /\ size' = Grown(index, key)
    /\ content' = With(key, value)
    /\ UNCHANGED <<search, graph, after, rooted>>

PutSearch(key, value) ==
    /\ search' = Put(search, key, value)
    /\ size' = Grown(search, key)
    /\ content' = With(key, value)
    /\ UNCHANGED <<index, graph, after, rooted>>

DeleteSearch(key) ==
    /\ Found(search, key) # {}
    /\ search' = Delete(search, key)
    /\ size' = size - 1
    /\ content' = Without(key)
    /\ UNCHANGED <<index, graph, after, rooted>>

\* replace_key deletes and puts; a key that is taken is refused before either.
ReplaceKey(old, new) ==
    /\ Found(search, old) # {}
    /\ old # new => Found(search, new) = {}
    /\ \E value \in Found(search, old) :
        /\ search' = Put(Delete(search, old), new, value)
        /\ content' = [k \in (DOMAIN content \ {old}) \union {new} |->
                            IF k = new THEN value ELSE content[k]]
    /\ UNCHANGED <<index, size, graph, after, rooted>>

Rebalance ==
    /\ search' = Rebalanced(search)
    /\ UNCHANGED <<index, size, content, graph, after, rooted>>

AddEdge(s, t, w) ==
    /\ HasEdge(graph, s, t) \/ EdgeCount(graph) < MaxEdges
    /\ graph' = WithEdge(graph, s, t, w)
    /\ UNCHANGED <<index, search, size, content, after, rooted>>

RemoveEdge(s, t) ==
    /\ HasEdge(graph, s, t)
    /\ graph' = WithoutEdge(graph, s, t)
    /\ UNCHANGED <<index, search, size, content, after, rooted>>

RemoveNode(n) ==
    /\ n \in NodesOf(graph)
    /\ graph' = WithoutNode(graph, n)
    /\ UNCHANGED <<index, search, size, content, after, rooted>>

\* RelayPlan.add: the checks come before the first of the three updates.
AddTask(task, priority, dependencies) ==
    /\ task \notin DOMAIN after
    /\ dependencies \subseteq DOMAIN after
    /\ graph' = FoldLeft(LAMBDA g, d : WithEdge(g, d, task, 1), WithNode(graph, task),
                         SetToSeq(dependencies))
    /\ index' = RedBlackPut(index, <<-priority, task>>, priority)
    /\ size' = Grown(index, <<-priority, task>>)
    /\ content' = With(<<-priority, task>>, priority)
    /\ after' = [t \in DOMAIN after \union {task} |->
                    IF t = task THEN dependencies ELSE after[t]]
    /\ UNCHANGED <<search, rooted>>

AddChild(parent, value) ==
    /\ value \notin Known
    /\ parent \in Known
    /\ rooted' = [value |-> [rooted.value EXCEPT ![FreeObject] = value],
                  kids |-> [rooted.kids EXCEPT ![FreeObject] = <<>>,
                                               ![rooted.node[parent]] = Append(@, FreeObject)],
                  node |-> [rooted.node EXCEPT ![value] = FreeObject]]
    /\ UNCHANGED <<index, search, size, content, graph, after>>

Replace(old, new) ==
    /\ new \notin Known
    /\ old \in Known
    /\ rooted' = [rooted EXCEPT !.value[rooted.node[old]] = new,
                                !.node[new] = rooted.node[old], !.node[old] = 0]
    /\ UNCHANGED <<index, search, size, content, graph, after>>

RemoveSubtree(value) ==
    /\ value \in Known
    /\ value # rooted.value[1]
    /\ LET n == rooted.node[value]
           removed == ToSet(ValuesFrom(n))
       IN rooted' = [rooted EXCEPT
                        !.kids[ParentOf(n)] = SelectSeq(@, LAMBDA m : m # n),
                        !.node = [v \in Task |-> IF v \in removed THEN 0 ELSE @[v]]]
    /\ UNCHANGED <<index, search, size, content, graph, after>>

Next ==
    /\ \/ subject = "index" /\ \E k \in IndexKey, v \in Value : PutIndex(k, v)
       \/ subject = "search" /\ \E k \in IndexKey, v \in Value : PutSearch(k, v)
       \/ subject = "search" /\ \E k \in IndexKey : DeleteSearch(k)
       \/ subject = "search" /\ \E old, new \in IndexKey : ReplaceKey(old, new)
       \/ subject = "search" /\ Rebalance
       \/ subject = "graph" /\ \E s, t \in Task, w \in Weight : AddEdge(s, t, w)
       \/ subject = "graph" /\ \E s, t \in Task : RemoveEdge(s, t)
       \/ subject = "graph" /\ \E n \in Task : RemoveNode(n)
       \/ subject = "plan" /\ \E t \in Task, p \in Priority, d \in SUBSET Task : AddTask(t, p, d)
       \/ subject = "tree" /\ \E p, v \in Task : AddChild(p, v)
       \/ subject = "tree" /\ \E old, new \in Task : Replace(old, new)
       \/ subject = "tree" /\ \E v \in Task : RemoveSubtree(v)
    /\ UNCHANGED subject

-----------------------------------------------------------------------------
(* What the answers are measured against.                                  *)

Holds(root) ==
    LET items == Items(root)
    IN /\ \A i, j \in DOMAIN items : i < j => Less(items[i][1], items[j][1])
       /\ ToSet(items) = {<<k, content[k]>> : k \in DOMAIN content}
       /\ Len(items) = size
       /\ \A k \in IndexKey : Found(root, k) = IF k \in DOMAIN content THEN {content[k]} ELSE {}

\* The paths of a graph without a node that is met twice, and what they weigh.
Paths(s, t) ==
    {p \in UNION {[1..k -> NodesOf(graph)] : k \in 1..Len(graph.nodes)} :
        /\ p[1] = s
        /\ p[Len(p)] = t
        /\ IsInjective(p)
        /\ \A i \in 1..Len(p) - 1 : HasEdge(graph, p[i], p[i + 1])}

Cost(p) ==
    FoldLeft(LAMBDA sum, i : sum + WeightOf(graph, p[i], p[i + 1]), 0, [i \in 1..Len(p) - 1 |-> i])

Reached(s) == {n \in NodesOf(graph) : Paths(s, n) # {}}
Cheapest(s, t) == CHOOSE c \in {Cost(p) : p \in Paths(s, t)} : \A p \in Paths(s, t) : c <= Cost(p)
Fewest(s, t) == CHOOSE c \in {Len(p) : p \in Paths(s, t)} : \A p \in Paths(s, t) : c <= Len(p)

NegativeCycle(s) ==
    \E a, b \in Reached(s) :
        HasEdge(graph, b, a) /\ \E p \in Paths(a, b) : Cost(p) + WeightOf(graph, b, a) < 0

NegativeEdge(s) ==
    \E a \in Reached(s), b \in NodesOf(graph) : HasEdge(graph, a, b) /\ WeightOf(graph, a, b) < 0

\* The answers of either algorithm: the cheapest cost of whatever is reached, along a
\* path of its predecessors.
Right(answer, s) ==
    \A n \in NodesOf(graph) :
        /\ (answer.distance[n] # Infinity) = (n \in Reached(s))
        /\ n \in Reached(s) =>
            /\ answer.distance[n] = Cheapest(s, n)
            /\ Back(answer.previous, n) \in Paths(s, n)

OrderRight ==
    LET order == TopologicalOrder(graph)
        cyclic == \E a, b \in NodesOf(graph) : HasEdge(graph, b, a) /\ Paths(a, b) # {}
    IN /\ (Len(order) # Len(graph.nodes)) = cyclic
       /\ \A i, j \in DOMAIN order : HasEdge(graph, order[i], order[j]) => i < j

\* With no negative edge, every node's own routing table forwards towards a destination
\* until it is reached.
RECURSIVE Arrives(_, _, _)
Arrives(n, target, hops) ==
    n = target \/ (hops > 0 /\ Arrives(NextHop(graph, n, target), target, hops - 1))

SearchesRight ==
    \A s \in NodesOf(graph) :
        LET found == DepthFirst(graph, <<s>>, <<>>)
            nearby == BreadthFirst(graph, <<s>>, <<>>)
            shortest == ShortestPaths(graph, s)
            general == BellmanFord(graph, s)
        IN /\ ToSet(found) = Reached(s) /\ IsInjective(found)
           /\ ToSet(nearby) = Reached(s) /\ IsInjective(nearby)
           /\ \A i, j \in DOMAIN nearby : i < j => Fewest(s, nearby[i]) <= Fewest(s, nearby[j])
           /\ \A t \in Reached(s) : Len(ShortestPath(graph, s, t)) = Fewest(s, t)
           /\ general.refused = NegativeCycle(s)
           /\ shortest.refused = NegativeEdge(s)
           /\ ~NegativeCycle(s) => Right(general, s)
           /\ ~NegativeEdge(s) =>
                /\ Right(shortest, s)
                /\ \A t \in Reached(s) : Arrives(s, t, Len(graph.nodes))

\* Put again in any of the three orders, the children's being reversed in postorder, the keys
\* grow the tree they came from.
Regrown(keys) == FoldLeft(LAMBDA root, k : Put(root, k, content[k]), Nil, keys)
OrdersTellShape ==
    /\ Regrown(KeysDown(search)) = search
    /\ Regrown(Reverse(KeysUp(search))) = search
    /\ search # Nil => Regrown(LevelOrder(<<search>>)) = search

\* A parent comes before its children, or after them in postorder; breadth first comes
\* level by level, down to the height.
RECURSIVE DepthOf(_)
DepthOf(n) == IF n = 1 THEN 0 ELSE 1 + DepthOf(ParentOf(n))
WalksAgree ==
    LET down == Preorder(rooted.kids, 1)
        up == Postorder(rooted.kids, 1)
        levels == ByDepth(rooted.kids, <<1>>)
        at(order, n) == CHOOSE i \in DOMAIN order : order[i] = n
    IN /\ ToSet(up) = ToSet(down) /\ ToSet(levels) = ToSet(down)
       /\ Len(up) = Len(down) /\ Len(levels) = Len(down)
       /\ \A n \in ToSet(down) : \A kid \in ToSet(rooted.kids[n]) :
             at(down, n) < at(down, kid) /\ at(up, kid) < at(up, n)
       /\ \A i, j \in DOMAIN levels : i < j => DepthOf(levels[i]) <= DepthOf(levels[j])
       /\ TreeHeight(rooted.kids, <<<<1, 0>>>>, 0) = DepthOf(Last(levels))

\* Whatever calls came before, the red-black tree is balanced and answers like a map, the
\* search tree answers like a map and is as low as can be once rebalanced, the graph's
\* answers are those of the definitions over all paths, the plan always has an order and
\* holds every task once in its index, the rooted tree finds exactly the values below
\* its root, and every order in which a structure is walked is true to its shape.
AnswersRight ==
    CASE subject = "index" -> Holds(index) /\ ~IsRed(index) /\ BlackHeight(index) > 0
      [] subject = "search" ->
            /\ Holds(search)
            /\ Holds(Rebalanced(search))
            /\ search # Nil => 2 ^ Height(Rebalanced(search)) <= size
            /\ OrdersTellShape
      [] subject = "graph" -> OrderRight /\ SearchesRight
      [] subject = "plan" ->
            /\ OrderRight
            /\ ToSet(TopologicalOrder(graph)) = DOMAIN after
            /\ \A t \in DOMAIN after, d \in Task : HasEdge(graph, d, t) <=> d \in after[t]
            /\ Holds(index) /\ BlackHeight(index) > 0
            /\ {Items(index)[i][1][2] : i \in DOMAIN Items(index)} = DOMAIN after
      [] subject = "tree" ->
            /\ IsInjective(ValuesFrom(1))
            /\ ToSet(ValuesFrom(1)) = Known
            /\ \A v \in Known : rooted.value[rooted.node[v]] = v
            /\ WalksAgree
=============================================================================
