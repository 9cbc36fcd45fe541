# libblit in TLA+

libblit is a small 2D graphics library in C: a context draws rectangles from a
source (an image or a solid colour) onto a destination image through one of two
back ends, Vulkan or amdgpu, and a surface hands out images to draw on and
displays them. This directory holds TLA+ modules of its stateful parts, the TLC
configurations that check them on small instances, and proofs checked by TLAPS.

The library is single-threaded; what runs beside it is the GPU, which executes
what was submitted some time later, and the presentation engine, which takes
images off the display when it pleases. Nothing in the code waits for the
former, or tells it what to finish before what else. That, the ages of images and the reuse of buffers are where the
difficulty is.

## The system's parts

| part | code | state | operations | hard behaviour | module |
|---|---|---|---|---|---|
| damage tracker | `damage.c` | ring of regions, `offset` | `blt_new_damage`, `blt_damage`, `blt_cycle_damage` | wraparound, ages at and past the end, the returned pointer aliases the ring | `Damage`, `DamageByAge` |
| drawing state | `blt.c`, `include/blt.h` | `op`, `dst`, `src`, `msk`, origins | `blt_setup`, `blt_op`, `blt_dst`, `blt_src`, `blt_mask`, `blt_rect` | the back end changes it during a call, assignments only after success | `Blt` |
| Vulkan recording | `vulkan/impl.c:567-751` | a draw context per destination, one descriptor set, the queue | `setup`, `flush`, `submit`, `rect` | recorded commands read memory later; batches in no order; failures half way | `Vulkan`, `VulkanPaints`, `Painter` |
| Vulkan surfaces | `vulkan/impl.c:137-197`, `surface.c` | the age of each image | `blt_acquire`, `blt_present` | engine owns images, int overflow, unlimited wait | `Surface` |
| a partial repaint | surface, tracker and client together | | the frame loop of a client | ages against tracked regions | `FrameLoop` |
| Vulkan images, contexts, surfaces made | `vulkan/impl.c:87-135, 199-565, 753-1166` | handles | constructors, exports, destroy functions | unwinding after a failure, at any depth of calls | `VulkanRoutines`, `Construct` |
| amdgpu drawing | `amdgpu/impl.c:379-437, 510-939` | command stream and vertex buffer per destination, the queue | `setup`, `draw`, `submit`, `rect` | a stream that is never reset and is replayed whole, the list of buffers a submission names | `Amdgpu`, `AmdgpuPaints`, `Raster`, `Canvas` |
| amdgpu images and contexts made | `amdgpu/impl.c:290-508, 949-1156` | handles | constructors, export, destroy functions | unwinding after a failure | `AmdgpuRoutines`, `Construct` |
| user data of images | `image.c` | a list per image, threaded through the client's nodes | add, get, destroy | callbacks that change the lists, add, free or destroy other images | `Userdata`, `Attachments` |
| choice of a back end | `drm.c`, `wl.c`, `x11.c`, `vulkan/{drm,wl,x11}.c` | none | try constructors in turn | the first one is tried each time | `Backends`, `Construct` |
| shaders, register headers, examples, build | | | | | not modelled |

How they interact: `blt.c` calls the `setup` and `rect` of the context's table
(`priv.h`), and assigns its fields only after `setup` succeeded; the back end
reads those fields (the *old* destination and origins) during the call.
`blt_acquire` gives an image and its age; the client passes the age to
`blt_damage`, redraws what that returns, leaves the destination
(`blt_dst(ctx, NULL, 0, 0)`, which submits), calls `blt_present`, and
`blt_cycle_damage`.

## The modules

**`DamageByAge`** is the tracker of `man/blt_new_damage.3` without a ring:
`since[a]` is what changed since the image of age `a`. **`Damage`** is
`damage.c`: one action for each call, a region as the set of cells it covers,
C's remainder (`CRem`), a returned pointer as the slot it points at. `ByAge`
instantiates the first with the second through
`since[a] = regions[(a + offset) % num_regions]`; the caller's pointer becomes
the age its slot has *now*.

**`Blt`** holds what a call makes of `struct blt_context`. **`Vulkan`** extends
it with the back end. The functions of `impl.c` are operators that take the
state of the back end as a record and return it changed, in the order of the
code; a call of `blt.h` is one action, ending in `Finish`, which assigns the
context only if setup did not fail. The GPU's `Execute` comes between calls, one
draw of *any* batch submitted, since nothing orders batches among each other:
`submit` and `setup` have no barrier, wait semaphore or fence (`impl.c:596-603`,
`650-662`). A batch is pending until it is completed, a step of its own.
A draw records the slot of its vertex, the origins pushed and the pipeline
bound; what it *paints* (`Stroke`) is read from the vertex memory and the
descriptor set at the moment of execution. Lengths count rectangles. Things
Vulkan or C give no meaning to are collected in `misuse`. Three of them happen
whoever calls (`KnownMisuses`): the missing barriers and layout transitions, the
update of the descriptor set where it is bound, and the semaphore signalled
again. No run can be free of them, so that `NoOtherMisuse` is about the other six, and
what is said of painting is said of a GPU that goes on after those three as the code
expects: an update takes effect at once, a signalled semaphore stays so, and what was
painted is there to be copied. What Vulkan may
refuse is chosen from `Failures`, by call; `pen.refused` remembers that the last
call lost a batch, for the refinement to tell a lost batch from a lost stroke.

`Rules` are what the client has to respect for the code to be right; each is a
conjunct of `MayCall` or `MayRect` and names a thing the code does not do:

| rule | what the client does | because |
|---|---|---|
| `declared` | uses an image as a source only if made for it, and not onto itself | `setup` does not look (`impl.c:675`) |
| `idle` | leaves a target alone until its batch was executed | no fence is waited for (`impl.c:644`) |
| `settled` | copies from an image when what draws on it was executed, and draws on it when what copies from it was | batches are not ordered (`impl.c:596-603`, `650`) |
| `texture` | names an image as the source when no copy waits, but in the same recording and from the same image | one descriptor set (`impl.c:688`) |
| `origin` | changes an origin with its image, or with nothing pending | `flush` reads the origins late (`impl.c:579`) |
| `source` | names the source again after a change of destination | `setup` forgets it (`impl.c:642`) |
| `room` | adds at most `vertex_cap` rectangles to a batch | `flush` makes no room (`impl.c:727`) |

The examples keep all seven. An eighth, `slots`, is a bound and not a rule: each
rectangle is written to one place of the buffers only, the first rectangle
first, so that fewer states differ in nothing but which rectangle is where. The client also stops after a failed call that left
it without a recording (`Stopped`), never passes a NULL source with a
destination, and draws only with one.

**`Painter`** is what a client relies on: strokes are painted once, as
they were asked for, and never before an earlier one that they are in `Conflict` with: one on
the same image, one that draws on what they copy from, or one that copies from what they draw on.
Others may come in any order, for no image shows it. **`VulkanPaints`** says that
`Vulkan` implements it: the
abstract queue is the concatenation of the strokes of the submitted batches and
of those recorded or waiting for a flush, *as they would come out if executed
now*. So a step that disturbs a stroke already waiting (an overwritten vertex,
an updated descriptor, a late origin) is no step of `Painter`, nor is a draw of a
batch that overtakes one it should have waited for.

**`Amdgpu`** extends `Blt` with the other back end, in the same form. Here a
target has one command stream and one vertex buffer for life: a submission
hands the GPU the stream from its *start*, so that it executes again what
earlier ones held, and neither buffer is ever reset. A stream is its length in
words and its draws, one for each vertex drawn (its slot, the origins and the
source the stream has set by then). `PreambleLen`, `BindLen` and `DrawLen` are
the words that `setup` and `draw` emit, counted for GFX10 (278, 12 and 15, with
12 for the longer of the two kinds of source); `Emit` checks the assertion of
`impl.c:513`. Its rules are those of `Vulkan`
without `idle` (nothing that waits is overwritten), `settled` (submissions are executed in
turn) and `texture` (the source is in the stream itself), and three of its own:

| rule | what the client does | because |
|---|---|---|
| `steady` | never copies from an image that is drawn on | the replay copies its later contents (`impl.c:655`) |
| `stream` | leaves an image for good when its stream is nearly full | it is never reset (`impl.c:513`) |
| `alike` | passes rectangles to one call that are all the same | the loop of `rect` does not move on (`impl.c:929`) |

`room` counts all rectangles ever added to the image (`impl.c:930`). The
examples keep all of them but `stream`, which a program that runs
long cannot keep with one set of images.

**`Raster`** is what drawing does to the cells of an image, **`Canvas`** what a
client relies on: the strokes asked for on an image are carried out on it once
each, in order. A replay paints strokes twice, so that `Painter`, which counts
paintings, is not what this back end implements; on the *images* the
replay is no difference, because blending is off and the whole
prefix is painted over in the same order. **`AmdgpuPaints`** says so: the strokes not
yet carried out are those of the stream behind the longest prefix executed
(`done`), and those of the vertices not drawn yet.

**`Surface`** is `acquire` and `present` against an engine that shows images in
turn (FIFO), with `int` of width `IntMax`: ages overflow. `vkAcquireNextImageKHR`
is a call (`Acquire`) and a return. The engine hands out one image at a time,
which is what `minImageCount` (`impl.c:517`) guarantees, and prefers an image
that waited `MaxWait` frames. A suboptimal present shows a frame and changes no
age: `since` then starts anew for every image, so that `AgeCountsFrames` speaks of
the images presented after it.

**`FrameLoop`** extends `Surface` with a client and the damage tracker
(`D == INSTANCE Damage`). `stale[i]` is what differs from the scene in image `i`. A
client distrusts some ages and passes `num_regions + 1` for them. A region beside
the array is any set of cells. The contents of an image are taken as kept when
rendering begins, although `loadOp` is `DONT_CARE` (`impl.c:659`). `Surface` has no run
of its own: the loop takes every step of it, and its properties are checked there.

**`Userdata`** is `image.c`: pointers (`data`, `next`), nodes that are allocated or
not, and the stack of running calls of `blt_image_destroy`. One turn of its loop
(`Unlink`) ends in the callback; the client then has control, inside the call,
and may do anything it may do outside. `blt_image_get_userdata` is a walk of single
steps. `attached` is what was added and not given back. The rules:

| rule | what the client does | because |
|---|---|---|
| `once` | adds no node that is still attached | its `next` would be overwritten (`image.c:20`) |
| `kept` | frees no node that is still attached | the loops read it (`image.c:9-12`, `29`) |
| `ended` | destroys no image that is being destroyed | the outer loop would go on with freed memory (`image.c:9`) |

**`Attachments`** is what a client relies on, with no pointers: stacks of data, given
back latest first, each once, before the image goes.

**`Construct`** runs constructors given as data. In both back ends, these are written alike:
C calls in a row, each with a `goto errorN` when it fails, and a ladder of
labels that takes back what was made by then. **`Routines`** gives such a function as a
record: its steps (the call, what it makes or drops, a function it calls, the
labels it may jump to, what it releases before it jumps), what is released
behind each label, and what it hands over. **`VulkanRoutines`** and
**`AmdgpuRoutines`** are the functions of the two `impl.c`, one definition for each;
**`Backends`** adds the functions that choose one and says what may be made inside
what. `Construct` has an action for each thing such a function does: make, drop,
call, fail, go one label down, return to the client, to its caller or to the one
that tried it. The client makes objects and destroys them, contents before
containers. What was made and not yet released is `held`; a release of what is not held, or
of an owner before what lives in it, is `misuse`, and so is a failure that the code does
not look at. A loop over `n` formats or queue families is its last turn; a loop over the devices or over
the images of a surface is two turns, the second standing for any later one.

Operators and actions introduced by "Mistake:" are variants of the definition
that follows. They appear in no next-state relation; replacing the definition
by the variant shows that a property notices. So do the routines whose name ends in
what is wrong with them (`BoAllocKeeps`).

## The runs

| run | instance | checks | states |
|---|---|---|---|
| `damage` | 3 regions, 3 cells, ages 0, 1, 2, 4, 7 | types, nested regions, refinement of `DamageByAge` | 1281 |
| `damage_oldest` | 3 regions, 2 cells, ages 0 to 4, among them 3 = `num_regions` | `UntrackedIsEverything` **violated** | |
| `vulkan` | 2 targets, one of them a texture of the other and a mask, a texture, a colour, 2 rectangles, 2 origins of targets, a buffer of 2; beginning or submitting may fail; `blt_setup` with 2 choices of arguments, `blt_dst` with 4, the other calls with all | types, recording, no misuse but the known ones, nothing left behind, refinement of `Painter`, everything painted | 183507 |
| `frame_loop` | 3 images, 2 regions, 2 cells, 4-bit `int`; errors and suboptimal results | types, ages count frames, distinct ages, no age all the way round, frames up to date, tracked damage covers staleness, acquire served | 517672 |
| `frame_loop_trusting` | the client passes negative ages on | `PointsIntoRing` **violated** | |
| `amdgpu` | 2 targets, a colour, a vertex buffer of 1, 2 cells | all six properties of the back end | 75870 |
| `amdgpu_batch` | 1 target, a texture, a colour, 2 origins, a vertex buffer of 2; calls of one or two rectangles; the kernel may refuse submissions, the client may use images as they were not declared | draws tile the vertices, refinement of `Canvas` | 36208 |
| `amdgpu_stream` | 1 target, the real `cmd.cap` of 20480 words; the client only changes its destination | `StreamFits` **violated** | |
| `amdgpu_sources` | as `amdgpu_batch` | `SourcesListed` **violated** | |
| `userdata` | 2 images, 3 nodes, 2 destroy functions | types, lists whole, no misuse, lookup, refinement of `Attachments`, destruction ends | 298120 |
| `construct` | 3 objects in turn, every constructor of both back ends; every step may fail but the 21 of `KnownFlaws` | types, a failure leaves nothing, ladders fit, releases in order, objects whole, no misuse | 168685 |
| `choice` | as `construct` | `EveryBackEndTried` **violated** | |

Bounds. Three regions and three images are the least with a region between
the newest and the oldest, and with an age neither newest nor past the tracker.
With two regions and three images (`frame_loop`) an age runs through tracked,
first untracked and beyond. A vertex buffer of two holds a batch of two draws,
drawn by one flush or by two; a batch more needs no third. Two targets let one
batch wait while another is recorded, and two be executed side by side; a target that is
also a texture is drawn on and copied from, in either order, and the texture besides it
lets the source change from one image to another. The client moves the origin of one
target, and none of a source. A call fails in one way at a time: a call that
loses a batch and then cannot begin the next is left out. `MaxWait` keeps the counters inside the
`int`: an age of a presented image cannot reach `IntMax` within it. That stands
for the 2^31 frames no image waits. With a 4-bit `int` and `MaxWait` 3 every
age of the loop, negative ones included, occurs.

Three nodes on two images are a list with a middle while another list is not
empty; a callback of one image may then destroy the other with nodes
on both. Three objects are a context with two images, or a surface, on it: a constructor
fails with others of its kind there, and one object is destroyed under two. Failures
of a constructor are not bounded: what is tried again fails again.

In the amdgpu runs a stream of 691 or 664 words has room for one to three frames,
enough for a submission that replays another and for a stream left for good; the
real one holds some 65 (`amdgpu_stream`). `RingCap` bounds
the submissions waiting: two let one wait while the other runs, and a third
blocks in the kernel. With two targets and one vertex each, what matters is
which target a draw goes to; with one target and two vertices, with which source
and origins. Two cells tell a rectangle moved by an origin from one that is not.

`CHECK_DEADLOCK FALSE` is set where the system really may stop: in the Vulkan and
amdgpu runs the client stops after a failed call, or is barred by its rules with nothing
left to execute; in the frame loop a client waits for ever once the images are lost;
in `construct` every object has been made, and destroyed, once.

Fairness. `Vulkan` and `Amdgpu` assume weak fairness of `Execute` only: a GPU works on what
it was given. The client is free to stop at any point; `EverythingPainted`
therefore starts from a client that left its destination. `FrameLoop` assumes
that the display goes on, and that vkAcquireNextImageKHR with no time limit returns
an image when there is one. `Userdata` assumes that the library runs on once it has
control, and that every callback returns at last, though it may make calls of
its own first: strong fairness, for each depth of nesting, since calls nested in a callback
disable its return for a while. `DestructionEnds` is about a client that stops
adding. Nothing else is assumed of a client.

## What the runs show

*Findings.* The first two concern the ages a client passes to `blt_damage`.

1. `damage.c:42` treats ages *above* `num_regions` as untracked. The age
   `num_regions` itself is not tracked either: its index is that of age 0, and after a
   turn of the ring that region is the empty one (`damage_oldest`).
2. `vulkan/impl.c:188` increments ages that start at `INT_MAX`
   (`impl.c:537`). At the second frame of a surface the age handed out is negative
   (in a build where `int` wraps) and `blt_damage` indexes before its array
   (`frame_loop_trusting`).
3. `amdgpu/impl.c:622-661` submits the stream and never resets it. At its real
   size the assertion of `emit` fails after some 65 frames on one image
   (`amdgpu_stream`).
4. `amdgpu/impl.c:635` names six buffers to the kernel; the image a draw copies
   from is not one of them, nor is the shader that copies
   (`amdgpu_sources`).
5. `drm.c:27` calls `impls[0]` in every turn of its loop: when Vulkan fails it is
   tried again, and the amdgpu back end never is (`choice`).

*Known misuses.* Three things that Vulkan gives no meaning to happen in every program that
draws, whatever rules it keeps; no run is needed to find them.

- `vulkan/impl.c:687-688` binds the descriptor set into the recording buffer and then updates
  it, without update-after-bind (791-800): from then on the buffer has no meaning. Every copy does it.
- `vulkan/impl.c:601-602` signals the semaphore of an image at each submission, and nothing
  ever waits for it: the second submission of an image signals a signalled one.
- No barrier orders batches, or brings an image into the layout named for it
  (`vulkan/impl.c:658, 697`). `src/README.md:33` lists synchronization among the things to
  figure out. The order is why the rule `settled` is needed.

*Known flaws.* Twenty-one steps of the constructors may not fail in the run `construct`,
because the code does not take back what was made, or goes on, when they do. They
are listed in `KnownFlaws` of `MCConstruct`, each at its line; any one of them let in
violates `LaddersFit` or `ReleasesInOrder`. No document says what a failing
constructor leaves, so that they are not findings of a run. They fall into four groups.

- Vulkan context: `vkEnumeratePhysicalDevices` leaves the instance
  (`vulkan/impl.c:1010`); the extensions of one device are lost when `reallocarray` fails for
  the next (1023), and `ext` is read at the number of the device, past what was set if there are
  many (1044); with no suitable device an uninitialized `phys` is compared
  (1052); a pipeline that fails frees a descriptor set by itself, which its pool does not
  allow (951, 806), and a layout it took back once more (1125); a failing
  command pool leaves layout, descriptors and sampler (1132).
- Vulkan images and surfaces: memory type -1 is used as an index (425), the exported
  descriptor stays open (123), a surface forgets the images it had set up (545).
- amdgpu context: nothing but the last of four buffers is taken back
  (`amdgpu/impl.c:1104-1131`), and one label too low leaves the submission
  context (1087).
- amdgpu image: the result of `malloc` is not looked at (448).

*What holds.* With those two kinds of age kept from it, the tracker is that of
the manual page, and a client that repaints only the returned region never
presents a stale cell. The Vulkan back end, on a GPU that goes on after the three
known misuses, paints what was asked for a client that keeps the rules, and no two strokes
in an order that shows; when Vulkan calls fail, what is lost is
a tail of the batch of the target being left. Recording is exclusive and nothing is left
unflushed, for any client and any failures. The amdgpu back end paints what was
asked as well, for a client that keeps its rules; a refused submission loses
nothing, because the stream is still there for the next one. That
nothing is ever waited for is right only because streams and vertex buffers
just grow (`AppendOnly`): a reset, which finding 3 calls for, will need a
fence. The lists of user data stay whole whatever callbacks do, and every node is given
back once, under three rules. But for the 21 flaws above, a constructor that fails leaves
nothing behind and one that succeeds has all its struct refers to.

## The proofs

`Damage_proofs` proves, for every `NumRegions > 0` and every set of ages
satisfying `AnswerableAges` (naturals other than `NumRegions`), type
correctness (`DamageTypeOK`), `DamageNested` and `DamageImplementsByAge`.
`TypeOK` and the nesting are inductive. Nesting needs a step of its own on the
ring: `RingTurns` says that turning it by one slot makes the region of age `a`
that of age `a + 1`, which reduces the modulus to a case split
(`RemOneTurn`). The refinement shows, for each action, the abstract action it
is (`BltDamageByAge`, `BltCycleDamageByAge`).

`Vulkan_proofs` proves `VulkanTypeOK`, `VulkanOneRecording` and
`VulkanNothingLeftBehind` for every value of the constants, with no assumption
on `Rules` or `Failures`. The inductive invariant is
`IInv == TypeOK /\ Kept(State, ctx.dst)`. `NothingLeftBehind` alone is not
inductive: a target that is left while it had vertices could become the
destination again, so `Kept` says of every target other than the destination
both that it is not recording and that it has no pending vertices, and states
it of a *record*, so that the lemmas follow the state from operator to operator
inside a call, where the destination of the context is not yet the one recording.

`Amdgpu_proofs` proves `AmdgpuTypeOK`, `AmdgpuDrawsTile` and `AmdgpuAppendOnly`
for every value of the constants, again with no assumption on `Rules` or
`Failures`. The invariant is `IInv == TypeOK /\ DrawsTile`; neither part is inductive
alone, since a submission is as long as its stream and a draw
takes the vertices from `pos` on. As in `Vulkan_proofs` the work is done by lemmas
on records: every operator keeps a state `Sound` and makes its buffers only
longer (`Grown`), and `DrawnBut(m, u)` follows which target may have vertices not
drawn. `AmdgpuAppendOnly` is `Grown` between two states.

`Userdata_proofs` proves `UserdataTypeOK` for any client and, under the rules,
`UserdataLinked`, `UserdataNoMisuse`, `UserdataGetsLatest` and
`UserdataImplementsAttachments`. The invariant is `TypeOK`, `Linked` and `NoMisuse`
with two parts about the calls under way: what they destroy is there, and different
in each (`Nested`), and a lookup has reached a node of the list with only nodes
of other functions before it (`OnTheWay`).
Whether a list is whole is stated through positions in `attached`, not through
reachability, which would need induction over data.

`Construct_proofs` is about *every* table of routines. What is particular to a table are two
hypotheses about each routine that begins, both checked in the run `construct` for the table
of libblit.

- `LaddersFit`: from any step that may fail, the labels it may jump to take back what there
  is by then. From it follow `ConstructTypeOK` and `ConstructFailureLeavesNothing`. The
  invariant `IInv` has three parts: the calls form a chain (`Chained`), what is held and not
  yet handed over is covered by what the running routines still will release (`Covered`),
  and a routine is being unwound only through a step that may fail (`Blamed`).
- `ReleasesInOrder`, which implies it: what a routine releases, label by label, is there and
  has nothing else in it; it ends with just what it gives; what it calls may release
  nothing that it has by then (`Scope`). From it follow `ConstructObjectsWhole` and
  `ConstructNoMisuse`. Covering is not enough here: `EInv` says what is held *exactly*
  (`Exact`: the steps behind the calls have made it, or, on the way back, the labels below take it
  back in order), and that the routines running have nothing to release of what is
  around them (`Cleared`). Without the latter a release that is right for a routine alone need not be
  right inside another.

`ConstructLaddersFit` and `ConstructReleasesInOrder` reduce both to the table itself: it
is enough that `Closed(Fitting)`, or `Closed(Orderly)` and `Destroyable`, which are formulas
without variables. For the table of libblit with the faults of `construct` all three are TRUE.
With `KnownFlaws` among the faults they are not, nor are the invariants of the run.

`FrameLoop_proofs` proves for any number of images and any `int` that ages count frames,
of `Surface` alone and in the loop, and for the loop `FrameLoopUpToDate`,
`FrameLoopTracked` and `FrameLoopDistinctAges`. These assume that the client distrusts
negative ages and `num_regions` (`DistrustsEnough`) and that no age goes all the way round
(`[]AgesGoOn`). The
invariant says where an image is (`Apart`), that an age is the count of frames
as long as an `int` holds it (`Counts`), and that what the tracker has for each age covers
what is stale (`LInv`).

`FrameLoopAgesGoOn` discharges the last assumption from the constants (`ServedInTime`: the images
are finitely many, no more than `MaxWait`, and `MaxWait + 2 * Cardinality(Images) <= IntMax + 2`; the
constants of `frame_loop` meet it with equality), and `FrameLoopUpToDateInTime` is
`FrameLoopUpToDate` without it. That an engine hands out first the image that waited
`MaxWait` frames bounds no wait by itself, as others may wait as long. The
invariant `InTime` bounds the wait of a queued or displayed image by its place in the queue, and says
of a free image that waited longer than `Back` that each frame since came from an image
of its own, whose age tells which: there are only so many images.

`VulkanRules_proofs` and `AmdgpuRules_proofs` prove `VulkanNoOtherMisuse` and
`AmdgpuNoMisuse`: for a client that keeps the rules `Careful` names (four for either),
whatever fails, nothing without a meaning is done and no
buffer is overrun, but for the `KnownMisuses` of Vulkan, which no rule of a client
avoids. The invariant `RInv` adds to `IInv` that the destination has a pipeline
bound whenever the client, or the context, has a source in mind or vertices
wait (`Ready`), which is what the code's forgetting of the source comes down to. For amdgpu it adds
that a stream always has the room its last submission will need (`Room`): the rule
`stream` asks for `Reserve` words, and each path through `setup` is shown to
leave that much of them.

The same two modules prove the refinements, `VulkanPaintsAsAsked` and `AmdgpuPaintsAsAsked`,
for a client that keeps the rules named by `Attentive` (six for Vulkan, three for amdgpu) and
whatever fails: the initial states map to initial states and every step to a step
of `Painter`, or of `Canvas`, or to a stutter. What makes each call leave the strokes
that wait as they were is an invariant about what they are read from when the GPU gets to them.

- Vulkan (`PInv`): the context has the destination and the origins of the client, and its source
  or none (`Mine`); the source the client has in mind is bound (`Follows`); draws are of vertices
  before `vertex_pos` (`Tidy`); and the batches are kept apart (`Apart`): a target has
  one at most, and none while it is recorded, what copies is known to have the set bound, and
  while anything has, nothing draws on the image in it. A batch the GPU takes a draw from
  then has only batches in front of it that its strokes are in no conflict with, so that the
  stroke may go (`BeforeApart`, `DrawExecuted`). The mapping flattens the batches
  submitted (`FlattenSeq`). That one batch more adds its strokes at the end, and that one stroke
  less in a batch is one less in the whole, is proved from the defining equation
  of the fold, with the least length that would refute it, as induction in the form of a rule
  is not available here.
- amdgpu (`PInv`): submissions of an image do not go back (`InOrder`), and each image shows the
  strokes ever executed (`Shown`). That a stream executed again from its start gives the same
  picture is the lemma `PaintAgain`, which goes by the last stroke that covers a cell (`Last` of
  `Raster`).

Model-checked only: the liveness properties (`EverythingPainted`, `AcquireServed`,
`DestructionEnds`), which are beyond the prover.

## Not modelled

- *Shaders.* Arithmetic on the GPU; a draw is what it reads.
- *Register headers and their generator.* `amdgfxregs.h`, `sid.h` and `amd_family.h` come
  from Mesa or are generated, and hold constants only. They are 18849 of the 22272
  lines of the repository. The words that `gfx_init` and `emit` write are a matter of these
  constants; the models have their number.
- *Examples.* They repaint everything in a loop, in the order of calls the models' clients
  have.
- *Words, arguments and answers of Vulkan and libdrm*, beyond success, failure,
  suboptimal and what is made.
- *Which device and extensions a Vulkan context finds.* The loop over the devices is two turns, the
  first of which finds none; which `has_extension` answers lead on is left open.
- *A Vulkan call that makes several objects* makes all or none
  (`vkCreateGraphicsPipelines` may make some).
- *Destroyed images in use.* `Vulkan` and `Construct` are not composed: a client of
  the former has its images for good, so that a context pointing at a destroyed image
  (`vulkan/impl.c:594`), or a new one at
  the address of the old that passes for the source already set (672), does not occur. `destroy`, `image_destroy` and `surface_destroy`
  release less than was made, some only the struct (`impl.c:92`, a TODO of the code); the
  model has what they do release, and states no property about what stays.
- *The list of buffers of a submission* (`amdgpu/impl.c:635`) is never destroyed; the
  kernel's handle tables are not modelled.
- *Solid colours.* `blt_new_solid` is one allocation; a solid is a value in `Blt`.
- *The contents lost with `LOAD_OP_DONT_CARE`* (`vulkan/impl.c:659`) are kept in the models.
- *Memory and caches of the GPU.* With `KnownMisuses` Vulkan promises nothing; the models let the GPU
  go on as described above, and do not say what else it may do (a lost device, stale caches,
  an image in the wrong layout). Nor do they have a `vkEndCommandBuffer` or a completion
  that fails other than as a submission refused.
- *Failures of the damage tracker.* `blt_new_damage` returns NULL when its `malloc` fails
  (`damage.c:23`), before there is any state; `blt_damage` ignores that `pixman_region32_union` may
  fail for want of memory (`damage.c:40`), which leaves pixman's broken region: the models have
  unions that succeed.
- *A client that goes on after a failed retarget* (`vulkan/impl.c:649`) is stopped.
