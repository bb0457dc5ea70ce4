# A specification of vuml

vuml is a small C++ library over Vulkan-Hpp: it enumerates compute devices, puts
arrays into their memory, and binds and runs compute shaders on them. This
directory specifies it in TLA+: modules translated from the code, TLC runs on
small instances, and theorems checked by TLAPS.

All paths below are relative to the repository (`include/...`, `src/...`,
`example/...`).

## 1. The system

### Components

| Component | Source | State | Operations |
|---|---|---|---|
| Instance | `src/instance.cc`, `include/vuml/instance.h` | one `vk::Instance` | constructor, `devices`, move, `clear` |
| Device | `src/device.cc`, `include/vuml/device.h` | a `VkDevice`, two command pools and two command buffers (compute, transfer; aliases when the queue families coincide), the family indices | constructors, copy, move, two assignments, `swap`, `release`, `computeQueue`, `transferQueue`, `releaseComputeCmdBuffer`, `selectMemory`, `createPipeline` |
| Program | `include/vuml/program.h` | shader module, layouts, descriptor pool and set, pipeline cache, pipeline; `batch_`, `specs_` | `grid`, `spec`, `bind`, `run(params, args...)`, the inherited `run()`, move, `release`; `ComputeBuffer::release` |
| Array memory | `include/vuml/array/alloc_device.h`, `properties.h`, `basic_array.h`, `host_array.h`, `array.h` | a buffer, its memory and the memory's flags; the mapped pointer of a `HostArray` | constructors with a chain of fallbacks, move, destructor, move assignment, `swap` |
| Array transfers | `include/vuml/array/device_array.h`, `src/utils.cc` | the contents of the arrays, a staging buffer per call | `fromHost`, `toHost`, `rangeToHost`, `copy_buf` |
| Helpers | `include/vuml/utils.h`, `src/utils.cc` | none | `read_spirv`, `div_up`, `Resource`, `NoopDeleter` |
| Iterators | `include/vuml/array/iter.h` | an array and an offset | `ArrayIter` |
| Logger, time stamps, traits, macros | `logger.*`, `timestamp.h`, `traits.h`, `vuml.h` | a level and a file | formatting and output |

### How they interact

One client thread calls the library. A program and the transfers of an array
share their Device by reference: a bind records the Device's *compute* command
buffer, a copy the *transfer* command buffer, which is the same one if one queue
family does both. The second actor is the GPU, which takes what was submitted to a
queue and executes it at a time of its own; each call that submits ends with
`waitIdle` on its queue. There are no callbacks, no timeouts and no other threads.
Errors are C++ exceptions thrown by Vulkan calls; the library catches them in three
places (the constructors of Device and BasicArray, and `allocMemory`).

### What is hard

* Host and GPU interleave between `submit` and `waitIdle`; command buffer,
  descriptor set, staging buffer and arrays are shared.
* `run()` without arguments submits whatever the Device's one compute buffer holds.
* An exception can leave any call between any two Vulkan calls, and the next call
  starts from what is left.
* Memory falls back to weaker types at two places (search and allocation), and the
  flags it is believed to have decide how transfers are done.
* Handles are plain values in Vulkan-Hpp; ownership is by convention, and copies,
  moves, assignments and a growing `std::vector` of devices put it at risk.
* Arrays and programs refer to a Device, Devices to an Instance: assigning or moving
  the object referred to changes it under everybody else.
* A descriptor set keeps copies of what the arrays were when they were bound.
* Transfers count in elements, in bytes and in 32 bits, and take any offset and
  length the client gives.

The complete list, line by line, is `hazards` in `PROJECT.json`.

### What makes it correct

* Program and transfers: every call is one synchronous operation on the arrays
  (`ImplementsSync`); a run launches what its own bind said
  (`RunSubmitsOwnBinding`); nothing the GPU works on is touched
  (`PendingUntouched`, `GpuIdleOutsideWait`); calls come back (`CallReturns`).
* Device: its command buffers are its own (`CmdBuffersOwned`), it is the only owner
  of its VkDevice until it is move constructed (`SoleOwner`), none is leaked even
  then (`NoneLeaked`), and its families are the least general ones
  (`MostSpecialised`).
* Instance: a VkInstance has one owner (`OwnedOnce`); while it stays in the object
  whose `devices()` made a Device, that Device finds it through `instance()` just if it
  refers to that object (`InstanceKnown`); what is enabled is there, with every default
  that is there (`EnablesWhatIsThere`); a Device and its copies have the extensions the
  client asked for, until one is moved from (`AsAsked`).
* Program's handles: all of one bind (`Coherent`); shared only by programs that a move
  of a bound one or a move assignment has parted, a shader by none (`OwnedOnce`); lost
  only by the repetition of a failed bind (`LostByRetryOnly`).
* Arguments: what the GPU reads is what the last bind gave (`ReadsGiven`), in the
  layout of the bind that made the pipeline (`LayoutOfPipeline`), and whole buffers
  that exist as long as the client keeps its arrays (`ReadsLiveBuffers`).
* Transfers: a request that does what it says is one read or write of elements
  (`ImplementsElementArray`) inside all regions (`SoundStaysInside`), and memory
  stays mapped only after the client's own code has thrown (`MappedByThrowOnly`).
* Assignments: Devices, buffers and shader modules keep one owner (`OwnedOnce`), handles are
  stranded only by an assignment (`StrandedByAssignOnly`), which strands all there
  are (`ReplacingStrandsAll`), and a host array's pointer stays with its memory
  (`PointerIntoOwnMemory`).
* Array memory: fits (`MemorySuitsBuffer`), is known for what it is (`FlagsTell`),
  is weaker than asked for only if the first type that suits was refused or there is
  none (`WeakerOnlyIfRefused`), is mapped as long as a pointer to it exists
  (`MappedForHostArrays`), is owned once (`OwnedOnce`), and the fallbacks end
  (`ConstructorEnds`).

## 2. The modules

| Module | Role |
|---|---|
| `ComputeCalls` | The calls, launches and memory both following modules speak of |
| `SyncCompute` | Abstract specification: every call is one atomic, synchronous operation |
| `Compute` | The code: a Device at work, its programs and transfers, and the GPU |
| `MCCompute` | Instance of `Compute`: numbers as array contents, a kernel in which every setting counts |
| `ComputeProofs` | All safety properties of `Compute`; `Compute` implements `SyncCompute` |
| `ArrayMemory`, `MCArrayMemory` | Buffers, memory types, fallbacks, ownership of arrays |
| `ArrayMemoryProofs` | All safety properties of `ArrayMemory` |
| `DeviceHandles`, `MCDeviceHandles` | Construction, copying, moving and destruction of devices; `Instance::devices` |
| `DeviceHandlesProofs` | All properties of `DeviceHandles` but the violated `VectorUsable` |
| `ProgramHandles`, `MCProgramHandles` | The Vulkan objects of a program |
| `ProgramHandlesProofs` | All properties of `ProgramHandles` |
| `DescriptorBindings`, `MCDescriptorBindings` | Arguments, descriptors, the layout, and the arrays behind them |
| `DescriptorBindingsProofs` | All properties of `DescriptorBindings` |
| `ElementArray` | Abstract specification: reads and writes of a sequence of elements |
| `ArrayTransfer`, `MCArrayTransfer` | Every transfer byte by byte |
| `ArrayTransferProofs` | `ArrayTransfer` implements `ElementArray`; its other properties |
| `DeviceReplacement`, `MCDeviceReplacement` | Assignment and swap of arrays and programs, which replace Devices |
| `DeviceReplacementProofs` | All properties of `DeviceReplacement` but the violated `NoexceptHolds` |
| `InstanceSetup`, `MCInstanceSetup` | Instances, what they enable, and the Devices that refer to them |
| `InstanceSetupProofs` | All properties of `InstanceSetup` |

### Compute

*State.* `compute_cmd_buffer` and `transfer_cmd_buffer` are the Device's members,
`released` the buffers a client got from `releaseComputeCmdBuffer`; `cmd_state` is
the life cycle of a command buffer in Vulkan (initial, recording, executable,
pending, invalid) and `cmd_work` what it holds; `queue` what was submitted and not
executed; `mem` and `stage` the contents of arrays and of the staging buffer;
`pipeline`, `desc_set`, `specs`, `batch` the state of the programs. `pc` and `call`
are the client thread. `last_bind` and `recorder` are history variables.

*Actions.* A call is entered by `CallBind`, `CallReplay` or `CallCopy`; then one
action per Vulkan call that can throw: `InitPipeline`, `BeginBind`, `EndBind`,
`CopyMapped`, `MakeStage`, `BeginCopy`, `EndCopy`, `Submit`, `WaitIdle`,
`DropStage`, `Return`. The `Throw...` actions are their exceptions, with what the
unwinding destroys. `Grid` and `SetSpec` change the settings between calls,
`ReleaseComputeCmdBuffer` and `DropComputeBuffer` hand out and free command
buffers (`ComputeBuffer::release` never nulls its handle: the client calls it once), `Execute` is the GPU. What is Vulkan and not vuml (`Execute`, `Perform`,
`Invalidate`) is external: a submission executes in order in its queue; changing a
descriptor set or destroying a buffer invalidates recordings that use it; a buffer
recorded for one submission is invalid after it; executing what was submitted
without being executable, or changed while pending, may do anything to the arrays.

*Constants.* `Kernel` is any function of a launch and the contents of the arrays;
`HostVisible` says which arrays are mapped and which are staged; `Faults` which
steps may throw; `CheckedReplay` whether the client keeps to the rule that `run()`
is called only while its program's bind is the latest recording known to it. The
rule is the client's: the code does not check it.

*Abstraction.* An array's contents are one value and a transfer is a whole array;
`ArrayTransfer` has the bytes. Arrays and programs live for the whole behaviour, and
all programs bind argument lists of the length of their first bind; what else a client
may do with arguments is in `DescriptorBindings`.

### SyncCompute and the refinement

`SyncCompute` has no queue, no command buffer, no staging buffer: a call is invoked,
takes effect at one instant, returns; or throws before the effect. A bind chooses
the specialization constants freely, because the code takes those of the first bind.
The mapping: `contents` is `mem`, `bound` is `last_bind`, and `phase` is computed
from `pc`; a submitted call is "done" once its queue has run dry. `ImplementsSync`
is the initial condition and the step formula of `SyncCompute` under this mapping.

### ArrayMemory

`type_bits` are the buffers with their `memoryTypeBits`, `mem_type` the allocations,
`mapped` the mapped ones; `buffer`, `mem_`, `flags_`, `data_` the members of the
arrays. `FindMemory` is one level of `findMemory`, `AllocateFails` the recursion of
`allocMemory` into its fallback (`frames`, `level`), `AllocateMemory` its success,
with the way `mem_id_` is handed back through every frame. `Construct`,
`BindBufferMemory`, `MapMemory`, `BindOrMapFails` and `Throw` are the rest of a
constructor. The flags of each memory type are chosen from `FlagSets` in `Init`, and the
types a buffer accepts from `BitSets` whenever a buffer is made, so that a run covers
every device these sets describe. `refused` is history: the types whose allocation
failed for an array. Allocation may fail at any time, and must when no handle is left.
The search takes the first type that suits and no other of its kind: when that one is
refused the fallback is asked, even if the device has a second type of the kind.

### DeviceHandles

`live` and `pools` are what exists in Vulkan; `obj` the fields of every Device
object. The actions are the calls of the constructor, its exceptions, the steps of
`Instance::devices` with the growth of its vector (`capacity` grows to any greater
value, since the standard does not say by how much; an element is moved to the new
storage and its old self destroyed, `Relocate`), and the client's copies,
assignments, swaps, moves and destructions. `device = other` is what overload
resolution makes of it: a copy, a swap, the destruction of the copy. A moved-from
`vk::Device` keeps its handle: it is reset only under
`VULKAN_HPP_HANDLES_MOVE_EXCHANGE`, which the repository does not define. `misuse`
records the release of what does not exist, `shared` whether any Device has been move
constructed. A family's flags are a number of the nine bits of `vk::QueueFlags`, as
`getFamilyID` compares them; families without queues are listed with no flags. If no
family has the flag, `getFamilyID` returns -1 (`NoFamily`), which the constructor passes
on to `createDevice` unchecked: that is an invalid use of Vulkan, and the model lets the
call succeed or throw. Vulkan does not oblige a family that computes to report the
transfer bit, so this is a case of real devices. `instance_`, which `swap` leaves out,
and the extensions are in `InstanceSetup`.

### ProgramHandles

The members of `ProgramBase` in the order in which a bind fills them; `Create` is
one create call, `BindThrows` an exception between two of them. `made_from` and
`overwritten` are history. A descriptor set goes with the pool it came from
(`Freed`): the code never frees one. The command buffer itself is in `Compute`.
A move takes only the shader out of the program moved from. If that program had been
bound, the other handles are then in both (`Shares`), and each releases them; `parted` is
the history of the programs this happened to. `MoveAssign` releases the left side and
then assigns to its `device_`, so that the VkDevice of all programs on that Device is
replaced and nothing they hold exists any more: all are `parted`. All programs are on
one Device here; `DeviceReplacement` has several. `Fresh` names a bound: a handle that a
program still holds is not given out again after its object was destroyed, so that the
histories can tell the two apart.

### DescriptorBindings

`size` and `live` are the buffers, `buffer` and `size_` the members of the arrays,
`desc_set` the descriptors of the program's set, whose length is its layout's. A bind
runs through `InitLayout`, `InitPipeline`, `WriteDescriptors`, `Record`; `BindThrows`
is an exception before or between them. `init_pipe_layout` and `alloc_descriptor_sets`
are one step, `InitLayout`: an exception between them leaves a new layout beside the old
set, but only while there is no pipeline, so that nothing can be submitted and the next
bind makes both again; `ProgramHandles` has the two apart. Between binds the client makes,
moves and destroys arrays.
`first`, `given` and `kept` are history: the number of arguments of the bind that made
the pipeline, what the last bind wrote, and whether all arrays it named are still
there. `misuse` records writes past the layout and arrays without a buffer; the code
excludes neither. Buffer handles are not reused while a descriptor names them, so that
a buffer that is gone can be told from a new one.

### ArrayTransfer and ElementArray

`data` are the bytes of one array, `host_visible` which way its transfers take,
`mapped` whether its memory is mapped. A request is one of the overloads with its
arguments; each is one step, with the exceptions as steps of their own (`MapThrows`,
`CopyThrows`, `StagedThrows`). `SizeOf` and `SizeBytes` are the 32-bit `size()` and
`size_bytes()`, `SrcOffset`, `DstOffset`, `HostOffset` and `CountOf` what each overload
passes on. An access outside a region, which the code does not check, sets `misuse`
and may leave any bytes. `Sound` says which requests do what they say: the client can
tell from the arguments and from `isHostVisible()`. Waiting for the copy is assumed
not to throw; `Compute` has that fault.

`ElementArray` knows elements only: a write replaces those it names, a read returns
those it names through a function, a failure changes nothing, or, for mapped memory,
leaves a first part written. The mapping cuts `data` into elements; every step whose
request is sound is a step of `ElementArray`, whatever unsound requests came before.

### DeviceReplacement

`vk` is the VkDevice of each Device object, `made_on` the VkDevice each resource was
made on (`Gone` when that was destroyed under it), `device_`, `handle` and `data_` the
members of arrays and programs. `device_` is a reference, so `device_ = other.device_`
in their move assignments is `Replace`: the Device it refers to becomes a copy of the
other, with a new VkDevice, and its old VkDevice is destroyed. `SwapHost`,
`RightToLeft` and `TempToRight` are the three moves of `std::swap` that
`HostArray::swap` makes of its base. `CopyThrows` is a copy of a Device that fails
inside an operator declared `noexcept`, after the left side was released. A resource is
an array's buffer or a program's shader module: the handle a move takes out of the
object moved from. The other six handles of a program stay in both programs; they are
in `ProgramHandles`.

### InstanceSetup

`enabled` says what each VkInstance was made with, `instance_` which one an Instance
holds, `devices` the fields of Devices that matter here: the Instance object they
refer to, the physical device, the list of extensions and what was enabled. `FilterList`
is `filter_list`, which adds to what is there; what is enabled is a set of names, since
neither the order of names nor a repeated one makes a difference to Vulkan or to the
code. Moves exchange or hand over the
handle, `Destroy` is `clear()`. `CopyOf` makes a VkDevice from the copied fields;
`Take` is what a swap leaves in a Device: all but the reference. `MoveDevice` is the move
constructor, which takes the list of extensions from a Device that keeps its VkDevice;
who owns a VkDevice is the subject of `DeviceHandles`, not of this module.
`origin` is the history of a Device: the Instance object and the VkInstance that made it,
the list asked for, and whether `extensions_` has kept it; `moved` are the VkInstances that
left an Instance object while Devices made in them existed. What the loader and the
devices offer is any of `Loaders` and `Offers`, names that are in no default included.
That a client's strings live as long as their use is assumed: names are values here.

## 3. The runs

| Run | Instance | Distinct states | Shows |
|---|---|---|---|
| `compute_shared` | one family, 2 programs, 2 values of `spec()`, 2 arrays (one mapped, one staged), 2 command buffers, all faults but `wait` | 2 147 000 | all safety of `Compute`, and the refinement |
| `compute_liveness` | two families, all faults, any replay, `Backlog = 1` | 92 000 | calls come back |
| `memory` | a Device array and 2 HostCoherent arrays, 3 memory types of 3 kinds, buffers that accept all types or all but the first, 2 buffers and allocations | 1 394 000 | fit, flags, first choice or its fallback's, mapping, ownership, end of the fallbacks |
| `devices` | 2 physical devices, 3 objects, 4 family lists (one without the transfer flag), all faults, client moves | 753 000 (up to symmetry) | ownership, leaks, choice of families |
| `device_vector` | 2 physical devices, no faults or client moves | violation | an element of the vector is destroyed |
| `program_bind` | 3 programs, 2 handles of a kind | 1 089 000 (up to symmetry) | one bind, who shares what |
| `transfers` | 2 elements of 2 bytes, words modulo 5, offsets, counts and lengths up to 3 | 11 600 | the refinement of `ElementArray`, bounds, mapping |
| `range_to_host` | the same | violation | a range is not delivered |
| `bindings` | 2 arrays, 3 buffers, sizes 1 and 3, words modulo 3, 1 or 2 arguments | 30 000 (up to symmetry) | arguments, layout, live buffers |
| `assignments` | 2 Devices, 3 VkDevices, 2 host arrays, 2 other objects, 3 resources | 100 000 (up to symmetry) | owners, stranded handles, pointers |
| `assign_noexcept` | the same | violation | an exception leaves a `noexcept` operator |
| `instance_devices` | 2 Instances, 3 Devices, 2 physical devices, 2 names, 2 loaders and 2 offers | 486 000 (up to symmetry) | owners, filtering, extensions, which Instance a Device finds |

*Bounds and why they are enough.* Two programs are what it takes to submit the
wrong recording; two arrays to have a mapped and a staged one, and a source and a
destination; numbers up to `MaxValue` = 1 under a kernel that adds its settings tell
a launch with one wrong part from the right one. Separate queue families, dispatch
sizes, push constants and clients that replay what they like are not in
`compute_shared`; the theorems of section 4 hold for these too, and
`compute_liveness` runs two families and such a client. `CmdBufs` is as many as the
Device holds and one to hand out, free and use again. `Backlog` bounds
the submissions left by failed waits. A chain of fallbacks has two levels; three memory
types are a first choice that is refused, the weaker one that is taken, and a second
strong one that is never tried, in every order; two arrays of a kind give every aliasing
of two owners, and the third the other chain. In `devices` three objects are a vector that
has to grow and a copy of one of its elements, or an element, a target and the temporary
of an assignment. Two handles of a kind let one program retry or two programs have
handles of their own; a third program stands beside two that a move has parted. In
`instance_devices` an enumeration takes two of the three Devices at once; when a client has
destroyed one of them there is room for those of the other Instance beside the one left,
and swaps and assignments across the two occur. The
loaders and offers have a name that only the client asks for, present and missing, and a
default, present and missing.
Two elements of two bytes tell an offset in bytes from one in elements and both from a
count; modulo 5 the array just fits and one element more does not; three is longer
than the array. Two arguments and two arrays give shorter and longer binds, repeated
ones and the same array twice; a buffer of 3 bytes is cut to 0. Two Devices and a third
VkDevice are what an assignment needs, and a pair of host arrays with another pair of
objects gives every assignment with and without a third party on the same Device.
Symmetry is used only where no liveness is checked; the exchanged values are model
values that no formula orders.

*Fairness.* `Compute` assumes weak fairness of the library's steps (the thread goes
on inside a call) and of each queue (Vulkan guarantees that submitted work
completes); nothing obliges the client to call, and no exception has to happen.
`ArrayMemory` assumes weak fairness of the constructor. Both are what a running
thread gives.

Every property has a mutant in `PROJECT.json`: a plausible mistake in a definition
(marked MUTANT in the module) under which TLC finds the property violated.

## 4. What is proved

TLC checks the instances above; TLAPS proves every safety property, action property
and refinement of the passing runs for all values of the constants that satisfy the
assumptions named in the modules (`KernelAssumption`, `NullAssumption`,
`DeviceAssumption`, `WorkAssumption`, `MemoryAssumption`, `BindingsAssumption`,
`ProgramHandlesAssumption`, `DeviceHandlesAssumption`, `FaultsAssumption`,
`ReplacementAssumption`, `TransferAssumption`, `InstanceAssumption`). The sets of
programs, arrays, Devices, values, names, handles and memory types are arbitrary, also
infinite; every run evaluates the assumptions. Each module's `IndInv` holds at first
and is kept by every step; the properties follow from it.

**Compute.** `IndInv` is `TypeOK`, the shape of the
call at each step (`CallShape`), what a bind and a dispatch have ready
(`BindReady`, `DispatchReady`), that the staging buffer exists while a copy needs it
and the copy can be executed only during its own call (`StageLives`, `CopyLives`), and
that pending and executable buffers hold work (`WorkRecorded`). `TypeOK` alone is not inductive: that a `toHost` delivers a
value needs that its staging buffer still exists, and that a launch has arguments
needs that its descriptor set was written. `TypeCorrect` and `BuffersOwned` follow.

`WaitInv` (work is outstanding only in the wait of the call
that submitted it, and what is pending is all there is in that call's queue) and
`RunInv` (what the `recorder` bound is still recorded and executable, with the
descriptor set its last bind wrote; what a run or a copy submits is its own recording,
and it is pending when the GPU comes to it) give `Synchronous`,
`HandsOff` and `RunsOwnBinding`. All three assume `"wait" \notin Faults`, the last also
`CheckedReplay`: without the first, a throwing wait leaves work behind, and the next
call records a pending buffer; without the second, `run()` submits another program's
recording. `compute_liveness` explores what then remains.

With `CopyInv` (the staging buffer holds what is uploaded, and once
the queue has run dry what was downloaded) `ComputeImplementsSync` follows:
initial states map to initial states, and each
action maps to the action of `SyncCompute` of the same meaning or to a stutter.

**ArrayMemory.** `IndInv` is `TypeOK` with what holds outside a constructor
(`Dormant`), during the search (`Building`, `Searching`), after the allocation
(`Holding`), that no two arrays share (`Single`), that everything has an owner
(`Owned`), and how mapping follows `data_` (`Mapping`). `WeakerOnlyIfRefused` is what
`Searching` is for: when the chain descends, the first type that suits the array's own
kind is known to be missing or refused. Other types of that kind are not tried, and the
theorem (`OneFallback`) does not say that they were.

**DescriptorBindings.** `IndInv` is `TypeOK` and `LayoutOfPipeline` with the shape of a
bind (`BindShape`: the steps that make a layout are passed only without a pipeline),
that with a pipeline every binding is written or is about to be (`Filled`), that what
is in the set is what the last bind gave (`AsGiven`), that an array which has a buffer
has it alone and knows its size (`Owning`), and that what a client keeps exists
(`Kept`). A bind that fails between layout and pipeline leaves a set of another length
and no pipeline: that the next bind starts again with the layout is what makes
`LayoutOfPipeline` inductive.

**ProgramHandles.** `IndInv` is `TypeOK` and the properties `OwnedOnce` and `Coherent`
with the shape of a bind (`BindShape`: what precedes its step exists, and the pipeline
is not there), what a bind in progress has made (`MadeSoFar`), the origin of all that
exists (`Traced`: it is held, with its pool if it is a descriptor set, or was
overwritten), that a descriptor set exists only with its pool (`PoolLives`), and that
what the set of a program that was not parted was made from exists and nobody else holds
it (`SetOwn`): without that, another program's release could free the set with the pool.
All four theorems hold for any client; what moving a bound program or assigning one costs
is in `OwnedOnce` itself.

**DeviceReplacement.** `IndInv` is `TypeOK`, two properties that are inductive beside
the others (`StrandedByAssignOnly`, `PointerIntoOwnMemory`), who owns what
(`DevicesOwn`, `Holding`, `NoneForgotten`), that a VkDevice on which resources are
exists (`OnLive`), and where base and pointer are in the middle of a swap
(`SwapShape`). `AssignmentStrandsAll` is an action property: a new VkDevice has no
resources on it, because all resources are on VkDevices that existed before (`OnLive`).

**DeviceHandles.** `IndInv` is `TypeOK`, the shape of a constructor in progress and of
the vector (`Shape`), which fields the constructor has filled at each of its calls
(`Fields`), the owners as long as nothing was move constructed (`Own`), and the two
properties that hold even then (`NoneLeaked`; `Families`: the family indices are those
`getFamilyID` finds). `NoneLeaked` holds although handles are shared after a move,
because whoever destroys an object destroys its VkDevice. `MostSpecialised` holds for all
lists of families: a family that is -1 is one no family of the device could be. That the
least number of
flags belongs to a family no other is a special case of needs two lemmas: the order of
`getFamilyID` has a least element (`LeastExists`), and a proper subset of flags is a
smaller number (`FewerFlags`).

**InstanceSetup.** `IndInv` is `TypeOK`, `OwnedOnce`, that what a VkInstance enabled is
what the filter makes of some list of the client (`EnabledKept`), and of every Device
(`DevicesRight`, `Consistent`): what it enabled is what the filter makes of some list; a
list that was kept is the one in `extensions_` and the one asked for; and the VkInstance
it comes from exists and, unless it has moved, is in its maker. Copies take the list from
the fields, so it is the list in the fields that has to stay with the VkDevice through
swaps and assignments. `InstanceKnown` follows with `OwnedOnce`: no second object has that
VkInstance.

**ArrayTransfer.** `TypeOK` is inductive: a transfer that passes its bounds check reads
bytes that are there. The rest is arithmetic on elements, bytes and 32-bit sizes
(`Position`, `MappedElements`, `SoundMapped`, `SoundStaged`), from which the bytes an
upload writes are the elements `ElementArray` overlays (`Uploaded`, `UploadOverlays`),
and what a download passes to the client those it reads (`DownloadReads`,
`CopiedAll`). `TransfersImplementElements` has one lemma per action; a client's
exception in the middle of a mapped upload is the weak failure of `ElementArray`.

**Only model-checked.** Liveness (`CallReturns`, `ConstructorEnds`), which is beyond
the prover's backends. The three violated properties are refuted by TLC's behaviours.

## 5. Findings

* `device_vector`: `example/test/main.cc:26-29` uses any element of the vector of
  devices; with two physical devices the vector grows while it is filled, and the
  first element's VkDevice is destroyed (`src/device.cc:131`, `src/instance.cc:115`).
* `range_to_host`: the assertion at `include/vuml/array/device_array.h:171` admits any
  range that is not empty; for an array that is not host visible line 180 copies all of
  the array to a staging buffer as long as the range, from an index taken for bytes.
* `assign_noexcept`: the move assignment at `include/vuml/array/basic_array.h:75` is
  declared `noexcept`, and copies a Device (line 79), which can throw. Where it does
  not throw it destroys the VkDevice that all arrays and programs on the Device use:
  that is what `ReplacingStrandsAll` states.

A remark that is no finding: after a program's first bind `spec()` has no effect
(`include/vuml/program.h:373`), so `SyncCompute` leaves the constants of a bind open.

## 6. What is not modelled, and the plan

Not modelled: the logger, time stamps, traits, macros, build files (no state the
library depends on); `read_spirv` and `div_up` (sequential, without state that outlives
the call; what `read_spirv` does at its limits is among the hazards); `ArrayIter`,
`BasicArray::swap`, the functor constructor of `DeviceArray`, moves of `Resource`, and
`bind` with an argument of a Program without push constants
(`include/vuml/program.h:446`; none compiles when it is used); the caches of memory that is visible but not coherent, for which the code has no
step; what a waitIdle that throws does to the arrays (invalid use of Vulkan, left to
chance); the life time of the strings in `extensions_`.

Possible extensions: arrays and programs that come and go in `Compute`, so that the
life times of `DescriptorBindings` meet the GPU's; the strings of `extensions_` as
objects with a life time.

## 7. Running it

    tlc -config compute_shared.cfg MCCompute      # likewise the other runs
    tlapm ComputeProofs.tla                       # likewise the other *Proofs modules
