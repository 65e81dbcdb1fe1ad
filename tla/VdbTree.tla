------------------------------ MODULE VdbTree ------------------------------
(***************************************************************************)
(* elements-io's VDB writer, and the reader its tests use (the vendored    *)
(* vdb-rs): build_tree buckets dense grids into 5-4-3 trees voxel by       *)
(* voxel, write_float_grids writes each grid as a descriptor, a topology   *)
(* pass and a data pass and then patches the descriptor's offsets, and a   *)
(* reader finds its way by those offsets and by the masks.                 *)
(*                                                                         *)
(* The file is a sequence of items, one for each mask, leaf or header, and *)
(* a position in it counts items.  The edges of the three levels are       *)
(* parameters, powers of two in the code: 8, 128 and 4096 voxels.          *)
(***************************************************************************)
EXTENDS Integers, Sequences, FiniteSets

CONSTANTS
    LeafDim,        \* LEAF_DIM: voxels along a leaf's edge
    InternalDim,    \* INTERNAL_DIM: voxels along an internal node's edge
    RootChildDim,   \* ROOT_CHILD_DIM: voxels along a root child's edge
    DimsChoices,    \* the resolutions tried
    GridCounts,     \* how many grids a file may be given
    Background      \* the value of a voxel outside the field

ASSUME VdbTreeAssumption ==
    /\ LeafDim \in Nat \ {0} /\ InternalDim \in Nat /\ RootChildDim \in Nat
    /\ InternalDim % LeafDim = 0 /\ RootChildDim % LeafDim = 0
    /\ InternalDim > 0 /\ RootChildDim % InternalDim = 0
    /\ DimsChoices \subseteq Nat \X Nat \X Nat
    /\ GridCounts \subseteq Nat

\* Children along an edge of an internal node, and of the root child.
InternalEdge == InternalDim \div LeafDim
RootEdge == RootChildDim \div InternalDim

VARIABLES
    dims,           \* the resolution, of every grid
    count,          \* how many grids there are
    trees,          \* the trees built, one for each grid
    voxel,          \* the voxel build_tree is at
    file,           \* the items written
    descriptor,     \* where the current grid's descriptor is
    pos,            \* where the reader is
    stage,          \* what is being done
    grid,           \* the grid it is being done to
    todo,           \* reading: the child indices still to be visited, by level
    leaves          \* what has been read: the leaves of each grid, in order

built == <<dims, count, trees, voxel>>
reader == <<pos, todo, leaves>>
vars == <<built, file, descriptor, stage, grid, reader>>

(***************************************************************************)
(* A voxel's place: the slot of its internal node in the root child, that  *)
(* of its leaf in the internal node, and its own in the leaf.              *)
(***************************************************************************)
Packed(edge, x, y, z) == x * edge * edge + y * edge + z

\* Faulty variant of leaf_voxel_offset: the axes as in the dense field.
LeafOffsetSwapped(c) ==
    Packed(LeafDim, c[3] % LeafDim, c[2] % LeafDim, c[1] % LeafDim)

leaf_voxel_offset(c) ==
    Packed(LeafDim, c[1] % LeafDim, c[2] % LeafDim, c[3] % LeafDim)

\* Faulty variant of internal_child_offset: the remainder is of the leaf.
ChildOffsetOfLeaf(c) ==
    Packed(InternalEdge, (c[1] % LeafDim) \div LeafDim,
           (c[2] % InternalDim) \div LeafDim, (c[3] % InternalDim) \div LeafDim)

internal_child_offset(c) ==
    Packed(InternalEdge, (c[1] % InternalDim) \div LeafDim,
           (c[2] % InternalDim) \div LeafDim, (c[3] % InternalDim) \div LeafDim)

internal_node_slot_offset(c) ==
    Packed(RootEdge, (c[1] % RootChildDim) \div InternalDim,
           (c[2] % RootChildDim) \div InternalDim,
           (c[3] % RootChildDim) \div InternalDim)

\* The reader's inverse, one level at a time: the coordinates of child n of a
\* node with so many children along an edge, each so many voxels wide.
offset_to_coord(n, edge, width) ==
    <<(n \div (edge * edge)) * width, ((n % (edge * edge)) \div edge) * width,
      (n % edge) * width>>

Plus(c, d) == <<c[1] + d[1], c[2] + d[2], c[3] + d[3]>>

(***************************************************************************)
(* Building.  A tree is a leaf for each occupied <<slot, child>>, and a    *)
(* leaf is a value for each active voxel of it.                            *)
(***************************************************************************)
\* Voxel c of the g-th grid.
Value(g, c) == <<g, c>>

TooLarge == \E a \in 1..3 : dims[a] > RootChildDim
Hollow == \E a \in 1..3 : dims[a] = 0

Slots(tree) == {place[1] : place \in DOMAIN tree}
Children(tree, slot) == {place[2] : place \in {p \in DOMAIN tree : p[1] = slot}}

\* The bits of a mask, in the order iter_ones gives them.
Ascending(S) ==
    [k \in 1..Cardinality(S) |->
        CHOOSE n \in S : Cardinality({m \in S : m < n}) = k - 1]

Stored(tree, place, at, value) ==
    [p \in DOMAIN tree \cup {place} |->
        IF p # place THEN tree[p]
        ELSE LET old == IF p \in DOMAIN tree THEN tree[p] ELSE <<>>
             IN  [n \in DOMAIN old \cup {at} |->
                     IF n = at THEN value ELSE old[n]]]

\* Faulty variant of Following: the bounds are inclusive.
FollowingInclusive(c) ==
    IF c[1] + 1 <= dims[1] THEN <<c[1] + 1, c[2], c[3]>>
    ELSE IF c[2] + 1 <= dims[2] THEN <<0, c[2] + 1, c[3]>>
    ELSE <<0, 0, c[3] + 1>>

\* The next voxel, the first coordinate fastest; after the last there is none.
Following(c) ==
    IF c[1] + 1 < dims[1] THEN <<c[1] + 1, c[2], c[3]>>
    ELSE IF c[2] + 1 < dims[2] THEN <<0, c[2] + 1, c[3]>>
    ELSE <<0, 0, c[3] + 1>>

NothingToDo == [slot |-> 0, slots |-> <<>>, children |-> <<>>, leaf |-> 0]

Init ==
    /\ dims \in DimsChoices /\ count \in GridCounts
    /\ trees = <<>> /\ voxel = <<0, 0, 0>>
    /\ file = <<>> /\ descriptor = 0
    /\ stage = "check" /\ grid = 1
    /\ pos = 0 /\ todo = NothingToDo /\ leaves = <<>>

\* NoGrids, FieldTooLarge, DuplicateGrid (a name given twice) and
\* LengthMismatch (values for another resolution) are found before the file
\* exists.  What the names and lengths are is the caller's.
Check ==
    /\ stage = "check"
    /\ \E namesDiffer, lengthsFit \in BOOLEAN :
           stage' = IF count # 0 /\ namesDiffer /\ ~TooLarge /\ lengthsFit
                    THEN "build" ELSE "refused"
    /\ trees' = [g \in 1..count |-> <<>>]
    /\ UNCHANGED <<dims, count, voxel, file, descriptor, grid, reader>>

AddVoxel ==
    /\ stage = "build" /\ ~Hollow /\ voxel[3] < dims[3]
    /\ trees' = [trees EXCEPT ![grid] =
           Stored(@, <<internal_node_slot_offset(voxel),
                       internal_child_offset(voxel)>>,
                  leaf_voxel_offset(voxel), Value(grid, voxel))]
    /\ voxel' = Following(voxel)
    /\ UNCHANGED <<dims, count, file, descriptor, stage, grid, reader>>

\* Every tree is built before File::create.
TreeBuilt ==
    /\ stage = "build" /\ (Hollow \/ voxel[3] >= dims[3])
    /\ voxel' = <<0, 0, 0>>
    /\ IF grid < count THEN grid' = grid + 1 /\ UNCHANGED <<stage, file>>
       ELSE /\ grid' = 1 /\ stage' = "describe"
            /\ file' = <<[item |-> "header", grids |-> count]>>
    /\ UNCHANGED <<dims, count, trees, descriptor, reader>>

(***************************************************************************)
(* Writing.                                                                *)
(***************************************************************************)
Descriptor == [item |-> "descriptor", gridPos |-> 0, blockPos |-> 0, endPos |-> 0]

Mask(S) == [item |-> "mask", bits |-> S]
Leaf(bits) == [item |-> "leaf", values |->
                  [n \in 0..(LeafDim * LeafDim * LeafDim - 1) |->
                      IF n \in DOMAIN bits THEN bits[n] ELSE Background]]

Concatenated(ss) ==
    LET upTo[k \in 0..Len(ss)] == IF k = 0 THEN <<>> ELSE upTo[k - 1] \o ss[k]
    IN  upTo[Len(ss)]

\* What is written for every leaf of the tree, slot by slot and child by
\* child, after what is written for its slot.
ForEachLeaf(tree, OfSlot(_), OfLeaf(_)) ==
    LET slots == Ascending(Slots(tree))
        ofSlot(s) ==
            LET children == Ascending(Children(tree, s))
            IN  OfSlot(s) \o
                Concatenated([k \in 1..Len(children) |->
                                  OfLeaf(<<s, children[k]>>)])
    IN  Concatenated([k \in 1..Len(slots) |-> ofSlot(slots[k])])

\* A child mask and an empty value mask for each node, and each leaf's mask.
Topology(tree) ==
    <<Mask(Slots(tree)), Mask({})>> \o
    ForEachLeaf(tree, LAMBDA s : <<Mask(Children(tree, s)), Mask({})>>,
                LAMBDA p : <<Mask(DOMAIN tree[p])>>)

\* Each leaf's mask again, and then all of its values.
Data(tree) ==
    ForEachLeaf(tree, LAMBDA s : <<>>,
                LAMBDA p : <<Mask(DOMAIN tree[p]), Leaf(tree[p])>>)

\* Compression, metadata and transform: one item, of no consequence here.
Preamble == [item |-> "preamble"]

Describe ==
    /\ stage = "describe"
    /\ file' = Append(file, Descriptor)
    /\ descriptor' = Len(file) + 1
    /\ stage' = "topology"
    /\ UNCHANGED <<built, grid, reader>>

WriteTopology ==
    /\ stage = "topology"
    /\ file' = file \o <<Preamble>> \o Topology(trees[grid])
    /\ stage' = "data"
    /\ UNCHANGED <<built, descriptor, grid, reader>>

\* Faulty variant of Patched: the end is taken before the data is written.
PatchedEarly(d, blockPos, endPos) ==
    [d EXCEPT !.gridPos = descriptor + 1, !.blockPos = blockPos,
             !.endPos = blockPos]

Patched(d, blockPos, endPos) ==
    [d EXCEPT !.gridPos = descriptor + 1, !.blockPos = blockPos,
             !.endPos = endPos]

\* The data, and then patch_u64_at for the three positions.
WriteData ==
    /\ stage = "data"
    /\ LET written == file \o Data(trees[grid]) IN
       file' = [written EXCEPT ![descriptor] =
                    Patched(@, Len(file) + 1, Len(written) + 1)]
    /\ IF grid < count THEN grid' = grid + 1 /\ stage' = "describe"
       ELSE grid' = 1 /\ stage' = "written"
    /\ UNCHANGED <<built, descriptor, reader>>

(***************************************************************************)
(* Reading.                                                                *)
(***************************************************************************)
Found(at, item) == at \in 1..Len(file) /\ file[at].item = item

Malformed ==
    /\ stage' = "malformed"
    /\ UNCHANGED <<built, file, descriptor, grid, reader>>

Open ==
    /\ stage = "written"
    /\ descriptor' = 2 /\ stage' = "readGrid"
    /\ leaves' = [g \in 1..file[1].grids |-> <<>>]
    /\ UNCHANGED <<built, file, grid, pos, todo>>

\* Seek to the grid; the root child's masks follow the preamble.
ReadRoot ==
    /\ stage = "readGrid"
    /\ IF Found(descriptor, "descriptor")
          /\ \A k \in 1..2 : Found(file[descriptor].gridPos + k, "mask")
       THEN LET at == file[descriptor].gridPos IN
            /\ pos' = at + 3
            /\ todo' = [NothingToDo EXCEPT !.slots = Ascending(file[at + 1].bits)]
            /\ stage' = "readTopology"
            /\ UNCHANGED <<built, file, descriptor, grid, leaves>>
       ELSE Malformed

ReadInternal ==
    /\ stage = "readTopology" /\ todo.children = <<>> /\ todo.slots # <<>>
    /\ IF Found(pos, "mask") /\ Found(pos + 1, "mask")
       THEN /\ todo' = [todo EXCEPT !.slot = Head(todo.slots), !.slots = Tail(@),
                                    !.children = Ascending(file[pos].bits)]
            /\ pos' = pos + 2
            /\ UNCHANGED <<built, file, descriptor, stage, grid, leaves>>
       ELSE Malformed

Origin(slot, child) ==
    Plus(offset_to_coord(slot, RootEdge, InternalDim),
         offset_to_coord(child, InternalEdge, LeafDim))

ReadLeafMask ==
    /\ stage = "readTopology" /\ todo.children # <<>>
    /\ IF Found(pos, "mask")
       THEN /\ leaves' = [leaves EXCEPT ![grid] = Append(@,
                  [origin |-> Origin(todo.slot, Head(todo.children)),
                   mask |-> file[pos].bits, values |-> <<>>])]
            /\ todo' = [todo EXCEPT !.children = Tail(@)]
            /\ pos' = pos + 1
            /\ UNCHANGED <<built, file, descriptor, stage, grid>>
       ELSE Malformed

\* Seek to the blocks.
EndTopology ==
    /\ stage = "readTopology" /\ todo.children = <<>> /\ todo.slots = <<>>
    /\ pos' = file[descriptor].blockPos
    /\ todo' = [todo EXCEPT !.leaf = 1]
    /\ stage' = "readData"
    /\ UNCHANGED <<built, file, descriptor, grid, leaves>>

ReadLeaf ==
    /\ stage = "readData" /\ todo.leaf <= Len(leaves[grid])
    /\ IF Found(pos, "mask") /\ Found(pos + 1, "leaf")
       THEN /\ leaves' = [leaves EXCEPT ![grid][todo.leaf].values =
                              file[pos + 1].values]
            /\ todo' = [todo EXCEPT !.leaf = @ + 1]
            /\ pos' = pos + 2
            /\ UNCHANGED <<built, file, descriptor, stage, grid>>
       ELSE Malformed

\* The next grid's descriptor is where this grid ends.
EndData ==
    /\ stage = "readData" /\ todo.leaf > Len(leaves[grid])
    /\ IF grid < Len(leaves)
       THEN /\ grid' = grid + 1 /\ descriptor' = file[descriptor].endPos
            /\ stage' = "readGrid"
       ELSE stage' = "read" /\ UNCHANGED <<grid, descriptor>>
    /\ todo' = NothingToDo
    /\ UNCHANGED <<built, file, pos, leaves>>

Write ==
    Check \/ AddVoxel \/ TreeBuilt \/ Describe \/ WriteTopology \/ WriteData

ReadBack ==
    \/ Open \/ ReadRoot \/ ReadInternal \/ ReadLeafMask \/ EndTopology
    \/ ReadLeaf \/ EndData

Next == Write \/ ReadBack

Spec == Init /\ [][Next]_vars

(***************************************************************************)
(* Properties.                                                             *)
(***************************************************************************)
Coordinates == {<<x, y, z>> : x \in 0..dims[1] - 1, y \in 0..dims[2] - 1,
                              z \in 0..dims[3] - 1}

\* The variables have their types.
TypeOK ==
    /\ dims \in DimsChoices /\ count \in GridCounts
    /\ voxel \in Nat \X Nat \X Nat
    /\ ~Hollow => voxel[1] < dims[1] /\ voxel[2] < dims[2] /\ voxel[3] <= dims[3]
    /\ stage \in {"check", "refused", "build", "describe", "topology", "data",
                  "written", "readGrid", "readTopology", "readData", "read",
                  "malformed"}
    /\ grid \in 1..(count + 1)
    /\ descriptor \in 0..Len(file) /\ pos \in 0..(Len(file) + 1)

\* Two voxels never share a place: while the trees are built, each voxel
\* passed adds one active place to its grid's tree, at every boundary of a
\* leaf, an internal node and the root child.
NothingOverlaps ==
    stage = "build" =>
        Cardinality(UNION {{<<p, n>> : n \in DOMAIN trees[grid][p]} :
                               p \in DOMAIN trees[grid]})
            = IF Hollow THEN 0
              ELSE voxel[1] + dims[1] * (voxel[2] + dims[2] * voxel[3])

\* What the reader has, as a set of coordinates and values.
ActiveIn(g) ==
    UNION {{<<Plus(leaf.origin, offset_to_coord(n, LeafDim, 1)), leaf.values[n]>> :
                n \in leaf.mask} :
           leaf \in {leaves[g][k] : k \in 1..Len(leaves[g])}}

\* A reader that follows the offsets and the masks finds each grid of the
\* file with exactly the field's voxels active, each with its own value.
ReadsBackTheField ==
    stage = "read" =>
        /\ Len(leaves) = count
        /\ \A g \in 1..count : ActiveIn(g) = {<<c, Value(g, c)>> : c \in Coordinates}

\* The reader meets what it expects at every position, and inactive voxels
\* carry the background.
NeverMalformed ==
    /\ stage # "malformed"
    /\ stage = "read" =>
           \A g \in 1..count : \A k \in 1..Len(leaves[g]) :
               LET leaf == leaves[g][k] IN
               \A n \in DOMAIN leaf.values \ leaf.mask : leaf.values[n] = Background

\* The file is the field: in the trees it is written from, at every position
\* that is read back, and in what the reader has in the end.
FileIsTheField == TypeOK /\ NothingOverlaps /\ NeverMalformed /\ ReadsBackTheField
=============================================================================
