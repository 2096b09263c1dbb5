------------------------------ MODULE VideoOut ------------------------------
(***************************************************************************)
(* Renders/VideoOut.cc: a renderer thread (AVOutBase::Svc) that opens an   *)
(* EGL surface and context for the size of its first frame, opens them     *)
(* again when the size changes, and draws.  Every call to EGL or to OpenGL *)
(* may fail where the code tests it.  EGL ignores the handle of something  *)
(* that no longer exists, and destroys only what it is told to.  The       *)
(* members m_egl_display, m_egl_surface and m_egl_context are not          *)
(* initialised: the memory of a new VideoOut may still hold the handles of *)
(* an earlier one.                                                         *)
(***************************************************************************)
EXTENDS Naturals, FiniteSets

CONSTANTS
  ImageSize,      \* sizes that a frame may have
  NoSize,         \* no image, no texture
  MaxImages       \* bound: frames taken from AVSync

ASSUME ImageAssumption == NoSize \notin ImageSize /\ MaxImages \in Nat

NoHandle == 0
StaleHandle == 1

VARIABLES
  videoPc,        \* where the renderer thread is
  afterClear,     \* and where clear returns to
  videoExit,      \* m_exit
  size,           \* size of the frame in on_frame
  display,        \* m_egl_display is not EGL_NO_DISPLAY
  surface,        \* m_egl_surface
  context,        \* m_egl_context
  surfaces,       \* EGL: the surfaces that exist
  contexts,       \* EGL: the contexts that exist
  bound,          \* EGL: the context that is current in the thread
  program,        \* m_program is not 0
  textures,       \* size of the textures in the current context
  imageSize,      \* m_image_width, m_image_height
  drawn,          \* history: the last frame drawn, and where
  images          \* frames taken; gives new handles their value

flowVars  == <<videoPc, afterClear, videoExit>>
eglVars   == <<display, surface, context, surfaces, contexts, bound>>
glVars    == <<program, textures>>
imageVars == <<size, imageSize, images>>
videoVars == <<flowVars, eglVars, glVars, imageVars, drawn>>

VideoInit ==
  /\ videoPc = "svc" /\ afterClear = "svc" /\ videoExit = FALSE
  /\ size = NoSize
  /\ display \in BOOLEAN
  /\ surface \in {NoHandle, StaleHandle} /\ context \in {NoHandle, StaleHandle}
  /\ surfaces = {} /\ contexts = {} /\ bound = NoHandle
  /\ program = FALSE /\ textures = NoSize
  /\ imageSize = NoSize
  /\ drawn = [size |-> NoSize, shown |-> FALSE, textures |-> NoSize]
  /\ images = 0

VideoGoto(pc) == videoPc' = pc /\ UNCHANGED <<afterClear, videoExit>>
ClearThen(pc) == videoPc' = "clear" /\ afterClear' = pc /\ UNCHANGED videoExit
NewHandle == images + StaleHandle

-----------------------------------------------------------------------------
(* A frame of the size that is set up is drawn at once.                    *)
TakeImage(s) ==
  /\ videoPc = "svc" /\ ~videoExit /\ images < MaxImages
  /\ size' = s /\ images' = images + 1
  /\ \/ s = imageSize /\ VideoGoto("draw")
     \/ s # imageSize /\ ClearThen("egl")
  /\ UNCHANGED <<eglVars, glVars, imageSize, drawn>>

(* Mutant: clear does nothing without a program. *)
ClearEglWithProgram ==
  \/ /\ display /\ program
     /\ bound' = NoHandle
     /\ surfaces' = surfaces \ {surface} /\ contexts' = contexts \ {context}
     /\ UNCHANGED <<display, surface, context>>
  \/ ~(display /\ program) /\ UNCHANGED eglVars

(* egl_destroy_display; the handles keep their values.                     *)
ClearEgl ==
  \/ /\ display
     /\ bound' = NoHandle
     /\ surfaces' = surfaces \ {surface} /\ contexts' = contexts \ {context}
     /\ UNCHANGED <<display, surface, context>>
  \/ ~display /\ UNCHANGED eglVars

Clear ==
  /\ videoPc = "clear"
  /\ ClearEgl
  /\ program' = FALSE /\ textures' = NoSize
  /\ VideoGoto(afterClear)
  /\ UNCHANGED <<imageVars, drawn>>

-----------------------------------------------------------------------------
(* egl_init_display, up to the call that fails; nothing is undone then.    *)
NoDisplay ==
  /\ display' = FALSE
  /\ UNCHANGED <<surface, context, surfaces, contexts, bound>>

NoConfig ==
  /\ display' = TRUE
  /\ UNCHANGED <<surface, context, surfaces, contexts, bound>>

NoSurface ==
  /\ display' = TRUE /\ surface' = NoHandle
  /\ UNCHANGED <<context, surfaces, contexts, bound>>

CreatesSurface ==
  /\ display' = TRUE
  /\ surface' = NewHandle /\ surfaces' = surfaces \cup {NewHandle}

NoContext == CreatesSurface /\ context' = NoHandle /\ UNCHANGED <<contexts, bound>>

CreatesContext ==
  /\ CreatesSurface
  /\ context' = NewHandle /\ contexts' = contexts \cup {NewHandle}

NotCurrent == CreatesContext /\ UNCHANGED bound

MakesCurrent == CreatesContext /\ bound' = NewHandle

(* The frame is dropped, the size that was set up before is kept.          *)
InitDisplayFails ==
  /\ videoPc = "egl"
  /\ NoDisplay \/ NoConfig \/ NoSurface \/ NoContext \/ NotCurrent
  /\ VideoGoto("svc")
  /\ UNCHANGED <<glVars, imageVars, drawn>>

InitDisplay ==
  /\ videoPc = "egl"
  /\ MakesCurrent
  /\ VideoGoto("gl")
  /\ UNCHANGED <<glVars, imageVars, drawn>>

(* Mutant: a failure leaves the new context current. *)
AfterFailureKept == VideoGoto("svc")

AfterFailure == ClearThen("svc")

(* A shader cannot be compiled, or the program not be linked.              *)
InitGlFails ==
  /\ videoPc = "gl"
  /\ AfterFailure
  /\ UNCHANGED <<eglVars, glVars, imageVars, drawn>>

InitGl ==
  /\ videoPc = "gl"
  /\ program' = TRUE /\ textures' = size
  /\ imageSize' = size
  /\ VideoGoto("draw")
  /\ UNCHANGED <<eglVars, size, images, drawn>>

(* Without a current context nothing comes to the screen.                  *)
Draw ==
  /\ videoPc = "draw"
  /\ drawn' = [size |-> size, shown |-> bound # NoHandle, textures |-> textures]
  /\ VideoGoto("svc")
  /\ UNCHANGED <<eglVars, glVars, imageVars>>

-----------------------------------------------------------------------------
(* stop; the thread ends with on_end_render, and the object is deleted     *)
(* once it has.                                                            *)
StopVideo ==
  /\ ~videoExit
  /\ videoExit' = TRUE
  /\ UNCHANGED <<videoPc, afterClear, eglVars, glVars, imageVars, drawn>>

EndRender ==
  /\ videoPc = "svc" /\ videoExit
  /\ ClearThen("off")
  /\ UNCHANGED <<eglVars, glVars, imageVars, drawn>>

OnImage ==
  \/ Clear \/ InitDisplayFails \/ InitDisplay \/ InitGlFails \/ InitGl \/ Draw

VideoNext ==
  \/ \E s \in ImageSize : TakeImage(s)
  \/ OnImage
  \/ StopVideo \/ EndRender

VideoSpec == VideoInit /\ [][VideoNext]_videoVars

-----------------------------------------------------------------------------
(* However often the size changes and whatever fails, the renderer never   *)
(* has two surfaces or contexts, and none is left when its thread has      *)
(* ended (VideoOut.cc:86, 134), whatever its handles were at first.        *)
OneContext ==
  /\ Cardinality(surfaces) <= 1 /\ Cardinality(contexts) <= 1
  /\ videoPc = "off" => surfaces = {} /\ contexts = {}

(* A frame that comes to the screen fills textures of its own size, also   *)
(* after an initialisation for another size has failed and left            *)
(* m_image_width and m_image_height as they were (VideoOut.cc:148): such a *)
(* frame is drawn without a context.                                       *)
DrawnWhole == drawn.shown => drawn.textures = drawn.size
=============================================================================
