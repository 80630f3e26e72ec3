------------------------------- MODULE Kasane -------------------------------
(***************************************************************************)
(* The objects of the GPU renderer: what each constructor of               *)
(* crates/kasane/src/vk.rs creates call by call, what it takes back when   *)
(* the driver refuses one of those calls, the order in which every Drop    *)
(* destroys, and how crates/omoya/src/kasane_renderer.rs holds them: the   *)
(* device behind an Arc, the textures a frame keeps until it is submitted. *)
(*                                                                         *)
(* A constructor is a table of driver calls.  Any of them may be refused;  *)
(* the refused one names what the code destroys, in order, before it       *)
(* returns the error.  Objects die one at a time, in the order of `dying'. *)
(***************************************************************************)
EXTENDS Naturals, FiniteSets, Sequences, SequencesExt, Lists

CONSTANTS
    Tex,            \* the textures clients show
    Sources,        \* where a texture comes from: "imported", "uploaded"
    TextureDraws,   \* Pipelines::MAX_TEXTURE_DRAWS
    MaxDraws,       \* bound: textures drawn in one frame
    MaxRefused      \* bound: calls the driver refuses

\* The things that are no texture have names of their own.
Fittings == {"gpu", "pipes", "bound", "scratch", "readback", "export"}
ASSUME KasaneAssumption ==
    /\ Tex \cap (Fittings \cup {"none"}) = {}
    /\ Sources \subseteq {"imported", "uploaded"}
    /\ TextureDraws \in Nat /\ MaxDraws \in Nat /\ MaxRefused \in Nat

VARIABLES
    kind,       \* what each thing is, or "none"
    objects,    \* the Vulkan objects that exist: <<thing, part>>
    stranded,   \* <<what was being built, part>>: nothing will destroy these
    dying,      \* the objects being destroyed, first one first
    renderer,   \* KasaneRenderer holds its Arc of the device
    frameDraws, \* the textures of the frame being recorded, or NoFrame
    frameHeld,  \* KasaneFrame::held
    callerHeld, \* the textures the compositor holds a clone of
    texels,     \* <<texture, region>> whose pixels are what was last written
    refused     \* calls refused so far

kasaneVars == <<kind, objects, stranded, dying, renderer, frameDraws, frameHeld,
                callerHeld, texels, refused>>

NoFrame == <<"none">>
Thing == Fittings \cup Tex
TexelRows == {"top", "rest"}

-----------------------------------------------------------------------------
(* The constructors.                                                       *)

Create(part, undo) == [makes |-> {part}, takes |-> {}, undo |-> undo]
Ask(undo) == [makes |-> {}, takes |-> {}, undo |-> undo]
\* The import takes the descriptor over, but only when it succeeds.
Absorb(part, fd, undo) == [makes |-> {part}, takes |-> {fd}, undo |-> undo]

\* The order of each Drop.
GpuDrop == <<"pool", "device", "messenger", "instance">>
PipelinesDrop == <<"textured", "solid", "linear", "nearest", "descriptorPool", "layout",
                   "setLayout", "module">>
BackingDrop == <<"view", "image", "memory">>
TargetDrop == <<"view", "image", "memory", "buffer", "bufferMemory">>
ImportedDrop == <<"view", "image", "memory">>
UploadedDrop == <<"view", "image", "memory", "staging", "stagingMemory">>
ExportedDrop == <<"image", "memory", "fd">>
DropOf ==
    [gpu |-> GpuDrop, pipelines |-> PipelinesDrop, owned |-> TargetDrop,
     imported |-> ImportedDrop, uploaded |-> UploadedDrop, exported |-> ExportedDrop,
     readback |-> <<"buffer", "bufferMemory">>]
Kinds == {"gpu", "pipelines", "owned", "imported", "uploaded", "readback", "exported"}
Parts == UNION {ToSet(DropOf[k]) : k \in Kinds}

\* Gpu::open: an instance and, with the validation layer, a messenger, which it
\* does without when the driver refuses it.
InstanceCall(validated) ==
    [makes |-> {"instance"} \cup (IF validated THEN {"messenger"} ELSE {}),
     takes |-> {}, undo |-> <<>>]

\* Gpu::pick: the device and its command pool.  When it fails, Gpu::open takes
\* the instance back.
GpuCalls(validated) ==
    <<InstanceCall(validated), Create("device", <<"instance">>),
      Create("pool", <<"device", "instance">>)>>

\* Pipelines::new and finish_building: the half-built struct is dropped.
PipelinesCalls ==
    LET order == <<"module", "setLayout", "layout", "nearest", "linear", "textured",
                   "solid", "descriptorPool">>
        before(i) == {order[j] : j \in 1..i - 1}
    IN  [i \in 1..Len(order) |->
            Create(order[i], Sift(PipelinesDrop, before(i)))]

\* Target::readback_buffer.  `also' is what its caller takes back with it, and
\* `whole' that after the buffer.
ReadbackCalls(also, whole) ==
    <<Create("buffer", also), Ask(whole), Create("bufferMemory", whole), Ask(whole)>>

\* Target::owned_backing, and with_backing around it.
BackingCalls ==
    <<Create("image", <<>>), Ask(<<"image">>), Create("memory", <<"image">>),
      Ask(<<"image">>), Create("view", <<"image">>)>>
OwnedCalls ==
    [n \in 1..9 |->
        IF n <= 5 THEN BackingCalls[n]
        ELSE ReadbackCalls(BackingDrop, <<"buffer", "view", "image", "memory">>)[n - 5]]

\* Gpu::import_linear: a duplicate of the client's descriptor as an image.
ImportLinearCalls ==
    <<Create("fd", <<>>), Ask(<<"fd">>), Create("image", <<"fd">>),
      Ask(<<"fd", "image">>), Absorb("memory", "fd", <<"fd", "image">>),
      Ask(<<"image">>), Create("view", <<"image", "memory">>)>>

\* Gpu::import_for: the modifier is looked for first, for a texture or for the
\* target of the scanout.
ImportCalls ==
    [n \in 1..8 |->
        IF n = 1 THEN Create("fd", <<>>) ELSE IF n = 2 THEN Ask(<<"fd">>) ELSE ImportLinearCalls[n - 1]]

\* Gpu::export_linear: the last call hands the descriptor out.
ExportCalls ==
    <<Create("image", <<>>), Ask(<<"image">>), Create("memory", <<"image">>),
      Ask(<<"image">>), Ask(<<"image">>), Create("fd", <<>>)>>

\* Gpu::upload_texture: image, memory and view, then the staging buffer and its
\* memory; and the first write, by when the struct exists and is dropped whole.
UploadCalls ==
    <<Create("image", <<>>), Ask(<<"image">>), Create("memory", <<"image">>),
      Ask(<<"image">>), Create("view", <<"image">>), Create("staging", <<"image">>),
      Ask(<<"image">>), Create("stagingMemory", <<"image">>), Ask(<<"image">>),
      Ask(UploadedDrop)>>

CallsOf(k, validated) ==
    [gpu |-> GpuCalls(validated), pipelines |-> PipelinesCalls, owned |-> OwnedCalls,
     imported |-> ImportCalls, uploaded |-> UploadCalls,
     readback |-> ReadbackCalls(<<>>, <<"buffer">>), exported |-> ExportCalls][k]

-----------------------------------------------------------------------------
(* Building and dropping.                                                  *)

NoneDying == dying = <<>>
Recording == frameDraws # NoFrame
Of(thing, parts) == [i \in DOMAIN parts |-> <<thing, parts[i]>>]
Standing(k) == {t \in Thing : kind[t] = k}

\* What the first n calls of a constructor leave behind.
After(calls, n) ==
    (UNION {calls[i].makes : i \in 1..n}) \ (UNION {calls[i].takes : i \in 1..n})

Built(thing, k, validated) ==
    LET calls == CallsOf(k, validated)
    IN  /\ kind' = [kind EXCEPT ![thing] = k]
        /\ objects' = objects \cup {<<thing, p>> : p \in After(calls, Len(calls))}
        /\ UNCHANGED <<stranded, refused>>

\* The driver refuses the n-th call: what was made is either taken back or left.
Refused(thing, k, validated) ==
    /\ refused < MaxRefused
    /\ refused' = refused + 1
    /\ \E n \in 1..Len(CallsOf(k, validated)) :
        LET calls == CallsOf(k, validated)
            made == After(calls, n - 1)
        IN  /\ objects' = objects \cup {<<thing, p>> : p \in made \cap ToSet(calls[n].undo)}
            /\ dying' = Of(thing, calls[n].undo)
            /\ stranded' = stranded \cup ({k} \X (made \ ToSet(calls[n].undo)))
    /\ UNCHANGED kind

\* Arc<Gpu>: the last thing that holds the device takes it along.
DropDirectly(things) ==
    Chained([i \in DOMAIN things |->
        Of(things[i], Sift(DropOf[kind[things[i]]],
                           {p \in Parts : <<things[i], p>> \in objects}))])
DeviceGoes(things, rendererStays) ==
    /\ "gpu" \notin things
    /\ kind["gpu"] = "gpu" /\ ~rendererStays
    /\ \A t \in Thing \ ({"gpu"} \cup things) : kind[t] = "none"
DropWhole(things, rendererStays) ==
    LET gone == ToSet(things)
        all == IF DeviceGoes(gone, rendererStays) THEN Append(things, "gpu") ELSE things
    IN  /\ dying' = DropDirectly(all)
        /\ kind' = [t \in Thing |-> IF t \in ToSet(all) THEN "none" ELSE kind[t]]

\* One object goes.
DestroyNext ==
    /\ ~NoneDying
    /\ objects' = objects \ {Head(dying)}
    /\ dying' = Tail(dying)
    /\ UNCHANGED <<kind, stranded, renderer, frameDraws, frameHeld, callerHeld, texels, refused>>

-----------------------------------------------------------------------------
(* KasaneRenderer.                                                         *)

\* new: the device, or an error.
OpenGpu ==
    /\ NoneDying /\ ~renderer /\ kind["gpu"] = "none"
    /\ \E validated \in BOOLEAN :
        \/ Built("gpu", "gpu", validated) /\ renderer' = TRUE /\ UNCHANGED dying
        \/ Refused("gpu", "gpu", validated) /\ UNCHANGED renderer
    /\ UNCHANGED <<frameDraws, frameHeld, callerHeld, texels>>

\* new, second half: the pipelines; refused, the device goes with them.
BuildPipelines ==
    /\ NoneDying /\ renderer /\ kind["pipes"] = "none"
    /\ \/ Built("pipes", "pipelines", FALSE) /\ UNCHANGED <<dying, renderer>>
       \/ /\ refused < MaxRefused
          /\ refused' = refused + 1
          /\ \E n \in 1..Len(PipelinesCalls) :
                /\ objects' = objects \cup Range(Of("pipes", PipelinesCalls[n].undo))
                /\ dying' = Of("pipes", PipelinesCalls[n].undo) \o DropDirectly(<<"gpu">>)
          /\ renderer' = FALSE
          /\ kind' = [kind EXCEPT !["gpu"] = "none"]
          /\ UNCHANGED stranded
    /\ UNCHANGED <<frameDraws, frameHeld, callerHeld, texels>>

Ready == NoneDying /\ kind["pipes"] # "none"

\* Bind<Dmabuf>: the framebuffer of one frame.
BindDmabuf ==
    /\ Ready /\ kind["bound"] = "none"
    /\ \/ Built("bound", "imported", FALSE) /\ UNCHANGED dying
       \/ Refused("bound", "imported", FALSE)
    /\ UNCHANGED <<renderer, frameDraws, frameHeld, callerHeld, texels>>

Unbind ==
    /\ NoneDying /\ ~Recording /\ kind["bound"] # "none"
    /\ DropWhole(<<"bound">>, renderer)
    /\ UNCHANGED <<objects, stranded, renderer, frameDraws, frameHeld, callerHeld, texels, refused>>

\* A texture of a client's buffer.
MakeTexture(t, source) ==
    /\ Ready /\ ~Recording /\ kind[t] = "none"
    /\ \/ /\ Built(t, source, FALSE) /\ UNCHANGED dying
          /\ callerHeld' = callerHeld \cup {t}
          /\ texels' = texels \cup ({t} \X TexelRows)
       \/ Refused(t, source, FALSE) /\ UNCHANGED <<callerHeld, texels>>
    /\ UNCHANGED <<renderer, frameDraws, frameHeld>>

\* ImportDma.
ImportTexture(t) == "imported" \in Sources /\ MakeTexture(t, "imported")
\* ImportMem and ImportMemWl.
UploadTexture(t) == "uploaded" \in Sources /\ MakeTexture(t, "uploaded")

\* update_memory and Uploaded::write: the rectangle is copied in behind a
\* barrier from UNDEFINED, which lets the driver drop the whole image.  A
\* dmabuf's texture is refused, and so is a write the driver will not take.
UpdateMemory(t, region) ==
    /\ Ready /\ ~Recording /\ t \in callerHeld /\ kind[t] = "uploaded"
    /\ \E kept \in {{}, {r \in TexelRows : <<t, r>> \in texels}} :
        texels' = {x \in texels : x[1] # t} \cup ({t} \X (region \cup kept))
    /\ UNCHANGED <<kind, objects, stranded, dying, renderer, frameDraws, frameHeld,
                   callerHeld, refused>>

\* Renderer::render.
BeginFrame ==
    /\ Ready /\ ~Recording /\ kind["bound"] # "none"
    /\ frameDraws' = <<>>
    /\ UNCHANGED <<kind, objects, stranded, dying, renderer, frameHeld, callerHeld, texels, refused>>

\* render_texture_from_to: the draw keeps raw handles, so the frame keeps the
\* texture.
RenderUnheld(t) ==
    /\ NoneDying /\ Recording /\ t \in callerHeld /\ Len(frameDraws) < MaxDraws
    /\ frameDraws' = Append(frameDraws, t)
    /\ UNCHANGED <<kind, objects, stranded, dying, renderer, frameHeld, callerHeld, texels, refused>>
RenderTexture(t) ==
    /\ NoneDying /\ Recording /\ t \in callerHeld /\ Len(frameDraws) < MaxDraws
    /\ frameDraws' = Append(frameDraws, t)
    /\ frameHeld' = frameHeld \cup {t}
    /\ UNCHANGED <<kind, objects, stranded, dying, renderer, callerHeld, texels, refused>>

\* The compositor lets its clone of a texture go.
LetGo(t) ==
    /\ NoneDying /\ t \in callerHeld
    /\ callerHeld' = callerHeld \ {t}
    /\ IF t \in frameHeld
       THEN UNCHANGED <<kind, dying, texels>>
       ELSE DropWhole(<<t>>, renderer) /\ texels' = {x \in texels : x[1] # t}
    /\ UNCHANGED <<objects, stranded, renderer, frameDraws, frameHeld, refused>>

\* record_and_submit: what may be lost of a texture it samples.  One made from a
\* dmabuf goes through a barrier from UNDEFINED.
MayLose(drawn) == SUBSET {t \in drawn : kind[t] = "imported"}

\* finish and Target::draw: submitted and waited for, or refused.  The frame's
\* holds end with it.
FinishFrame ==
    /\ NoneDying /\ Recording
    /\ LET drawn == IF Len(frameDraws) <= TextureDraws THEN ToSet(frameDraws) ELSE {}
           last == SetToSeq(frameHeld \ callerHeld)
       IN  /\ \E lost \in MayLose(drawn) :
                texels' = {x \in texels : x[1] \notin lost \cup ToSet(last)}
           /\ DropWhole(last, renderer)
    /\ frameDraws' = NoFrame
    /\ frameHeld' = {}
    /\ UNCHANGED <<objects, stranded, renderer, callerHeld, refused>>

\* ExportMem: a readback made for the occasion.  Of a texture it is a scratch
\* target drawn and read, the frame's own buffer otherwise.
CopyOut(thing, k) ==
    /\ Ready /\ ~Recording
    /\ kind["bound"] # "none" \/ callerHeld # {}
    /\ LET made == After(CallsOf(k, FALSE), Len(CallsOf(k, FALSE)))
       IN  \/ /\ objects' = objects \cup {<<thing, p>> : p \in made}
              /\ dying' = Of(thing, DropOf[k])
              /\ UNCHANGED <<kind, stranded, refused>>
           \/ Refused(thing, k, FALSE)
    /\ UNCHANGED <<renderer, frameDraws, frameHeld, callerHeld, texels>>
CopyFramebuffer == CopyOut("readback", "readback")
CopyTexture == CopyOut("scratch", "owned")

\* A buffer of our own to hand to another process.
ExportLinear ==
    /\ Ready /\ ~Recording /\ kind["export"] = "none"
    /\ \/ Built("export", "exported", FALSE) /\ UNCHANGED dying
       \/ Refused("export", "exported", FALSE)
    /\ UNCHANGED <<renderer, frameDraws, frameHeld, callerHeld, texels>>
TakeFd ==
    /\ NoneDying /\ <<"export", "fd">> \in objects
    /\ objects' = objects \ {<<"export", "fd">>}
    /\ UNCHANGED <<kind, stranded, dying, renderer, frameDraws, frameHeld, callerHeld, texels,
                   refused>>
DropExport ==
    /\ NoneDying /\ ~Recording /\ kind["export"] # "none"
    /\ DropWhole(<<"export">>, renderer)
    /\ UNCHANGED <<objects, stranded, renderer, frameDraws, frameHeld, callerHeld, texels, refused>>

\* The renderer is dropped: its Arc of the device, then the pipelines.
CloseKillsGpu ==
    /\ Ready /\ ~Recording
    /\ renderer' = FALSE
    /\ dying' = DropDirectly(<<"gpu", "pipes">>)
    /\ kind' = [kind EXCEPT !["gpu"] = "none", !["pipes"] = "none"]
    /\ UNCHANGED <<objects, stranded, frameDraws, frameHeld, callerHeld, texels, refused>>
CloseRenderer ==
    /\ Ready /\ ~Recording
    /\ renderer' = FALSE
    /\ DropWhole(<<"pipes">>, FALSE)
    /\ UNCHANGED <<objects, stranded, frameDraws, frameHeld, callerHeld, texels, refused>>

-----------------------------------------------------------------------------
KasaneInit ==
    /\ kind = [t \in Thing |-> "none"]
    /\ objects = {} /\ stranded = {} /\ dying = <<>>
    /\ renderer = FALSE
    /\ frameDraws = NoFrame /\ frameHeld = {} /\ callerHeld = {}
    /\ texels = {}
    /\ refused = 0

KasaneNext ==
    \/ OpenGpu \/ BuildPipelines \/ BindDmabuf \/ Unbind \/ BeginFrame \/ FinishFrame
    \/ CopyFramebuffer \/ CopyTexture \/ ExportLinear
    \/ TakeFd \/ DropExport \/ CloseRenderer \/ DestroyNext
    \/ \E t \in Tex :
        \/ ImportTexture(t) \/ UploadTexture(t)
        \/ \E region \in SUBSET TexelRows : UpdateMemory(t, region)
        \/ RenderTexture(t)
        \/ LetGo(t)

KasaneSpec == KasaneInit /\ [][KasaneNext]_kasaneVars

-----------------------------------------------------------------------------
(* What must hold.                                                         *)

\* Every variable holds what the code's type of it can.
KasaneTypeOK ==
    /\ kind \in [Thing -> Kinds \cup {"none"}]
    /\ objects \subseteq Thing \X Parts
    /\ stranded \subseteq Kinds \X Parts
    /\ dying \in Seq(Thing \X Parts)
    /\ renderer \in BOOLEAN
    /\ frameDraws = NoFrame \/ frameDraws \in Seq(Tex)
    /\ frameHeld \subseteq Tex /\ callerHeld \subseteq Tex
    /\ texels \subseteq Tex \X TexelRows
    /\ refused \in 0..MaxRefused

\* Each object outlives what was made from it: a view its image, a pipeline
\* its layout, everything the device, the device and the messenger the
\* instance.  What a refused constructor stranded is not counted here.
ParentOf ==
    [view |-> "image", textured |-> "module", solid |-> "module", layout |-> "setLayout",
     device |-> "instance", messenger |-> "instance", pool |-> "device"]
ParentsOutlive ==
    /\ \A x \in objects :
        x[2] \in DOMAIN ParentOf => <<x[1], ParentOf[x[2]]>> \in objects
    /\ \A x \in objects : x[1] # "gpu" /\ x[2] # "fd" => <<"gpu", "device">> \in objects

\* What the frame being recorded will name is still there: a texture whose last
\* other holder let it go in the middle of a frame lives until the frame ends,
\* and an object is destroyed once, by the one that made it.
DrawnObjectsLive ==
    /\ Recording => \A t \in ToSet(frameDraws) \cup {"bound"} :
            <<t, "view">> \in objects /\ <<t, "image">> \in objects
    /\ ToSet(dying) \subseteq objects /\ IsInjective(dying)

\* A target that cannot be built to the end takes back everything it made: a
\* compositor that tries again loses nothing per attempt.
SelfCleaning == \A x \in stranded : x[1] # "owned"

\* Writing a rectangle of a texture leaves the rest of it as it was.
TheRestStays ==
    [][\A t \in Tex : kind[t] = "uploaded" /\ kind'[t] = "uploaded" =>
         {x \in texels : x[1] = t} \subseteq texels']_kasaneVars

\* Nothing of the driver is used after it was destroyed: an object's parents
\* outlive it, and what a frame in flight draws still exists.
ObjectsOutliveTheirUse == ParentsOutlive /\ DrawnObjectsLive
=============================================================================
