------------------------------ MODULE MCGlass ------------------------------
(***************************************************************************)
(* What becomes of a change until it is on the glass, for TLC: the scene   *)
(* of the desk and the caches it is drawn from (Scene), the pixels of a    *)
(* client under narrowed damage (FramePixels), the software renderer's     *)
(* blit (Blit), the objects of the Vulkan renderer (Kasane) and the scan   *)
(* for stale pixels (Stale).  They share no variable: a behaviour picks    *)
(* one and runs it, the others stay in one initial state each.             *)
(***************************************************************************)
EXTENDS Scene, FramePixels, Blit, Kasane, Stale

VARIABLE part       \* the component this behaviour runs

\* A floating look and a tiling one, which differ in every field.
Looks == {[mode |-> "floating", accent |-> "frost", height |-> 20, scale |-> 1,
           notes |-> 1],
          [mode |-> "tiling", accent |-> "aurora", height |-> 24, scale |-> 2,
           notes |-> 2]}

\* A buffer of 3 by 2 texels on an output of 4 by 4.
SmallTexture == <<3, 2>>
SmallCanvas == <<4, 4>>
BufferOf(format, alpha) == [format |-> format, alpha |-> alpha]
SomeBuffers ==
    {BufferOf("Xrgb", [t \in Texels |-> "clear"]),
     BufferOf("Argb", [t \in Texels |-> "opaque"]),
     BufferOf("Argb", [t \in Texels |-> CASE t = <<0, 0>> -> "half"
                                          [] t = <<1, 0>> -> "clear"
                                          [] OTHER -> "opaque"])}
SomeBufferDamages == {{}, {Rect(0, 0, 1, 1)}, {Rect(1, 0, 2, 2)}, {Rect(0, 0, 3, 1)}}

\* The whole of the texture and a part that begins between two texels; at the
\* texture's size, turned, scaled, and off two edges of the output.
SomeSources == {Rect(0, 0, 6, 4), Rect(3, 0, 3, 5)}
SomeDestinations == {Rect(1, 0, 2, 3), Rect(-1, 1, 3, 2), Rect(1, 1, 4, 2), Rect(1, 1, 3, 2),
                     Rect(0, 1, 1, 2)}
SomeDamage == {<<Rect(0, 0, 4, 4)>>, <<Rect(0, 0, 1, 2), Rect(1, 1, 2, 2)>>}
SomeJobs ==
    [op : {"texture"}, src : SomeSources, dst : SomeDestinations, transform : Transforms,
     alpha : {"full", "part", "none"}, damage : SomeDamage]
    \cup [op : {"solid"}, dst : SomeDestinations, alpha : {"full", "part"}, damage : SomeDamage]
    \cup [op : {"clear"}, ground : BOOLEAN, damage : SomeDamage]

\* Elements over one another, and one alone.
SomeElements ==
    {<<Box(0, 0, 2, 2)>>, <<Box(0, 0, 3, 2), Box(1, 1, 2, 2), Box(1, 1, 1, 1)>>}

\* A component that is not looked at starts in one state.
Rests(p, v, S) == part = p \/ v = CHOOSE x \in S : TRUE

GlassInit ==
    /\ part \in {"scene", "pixels", "blit", "kasane", "stale"}
    /\ SceneInit /\ PixelsInit /\ BlitInit /\ KasaneInit /\ StaleInit
    /\ Rests("scene", look, Look) /\ Rests("scene", wallpaper.file, Pictures)
    /\ Rests("pixels", buffer, Image) /\ Rests("pixels", flush, FlushPolicies)
    /\ Rests("pixels", authority, Authorities)
    /\ Rests("stale", differing, SUBSET ScanPixels) /\ Rests("stale", baselineRows, {ScanHeight})
    /\ Rests("stale", drawnElements, {Named(list) : list \in ElementLists})

GlassNext ==
    /\ UNCHANGED part
    /\ \/ part = "scene" /\ SceneNext /\ UNCHANGED <<pixelVars, blitVars, kasaneVars, staleVars>>
       \/ part = "pixels" /\ PixelsNext /\ UNCHANGED <<sceneVars, blitVars, kasaneVars, staleVars>>
       \/ part = "blit" /\ BlitNext /\ UNCHANGED <<sceneVars, pixelVars, kasaneVars, staleVars>>
       \/ part = "kasane" /\ KasaneNext /\ UNCHANGED <<sceneVars, pixelVars, blitVars, staleVars>>
       \/ /\ part = "stale" /\ StaleNext
          /\ UNCHANGED <<sceneVars, pixelVars, blitVars, kasaneVars>>

glassVars == <<part, sceneVars, pixelVars, blitVars, kasaneVars, staleVars>>
GlassSpec == GlassInit /\ [][GlassNext]_glassVars

\* Every variable of the five components is in its type.
GlassTypeOK == SceneTypeOK /\ PixelsTypeOK /\ BlitTypeOK /\ KasaneTypeOK /\ StaleTypeOK
=============================================================================
