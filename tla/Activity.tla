------------------------------ MODULE Activity ------------------------------
(***************************************************************************)
(* MainActivity.java and RtpPlayer_jni.cc: the user interface thread makes *)
(* and destroys a native player with the surface, and the thread that      *)
(* onCreate starts polls its statistics through a handle that the activity *)
(* keeps in a field, which is not volatile and is never set back to 0.     *)
(***************************************************************************)
EXTENDS Integers

CONSTANT MaxPlayers   \* bound: surfaces that are created

Kind == {"video", "audio"}
Player == 1 .. MaxPlayers

VARIABLES
  ui,        \* where the user interface thread is
  exit,      \* the field exit of the activity
  handle,    \* its field handle
  made,      \* number of surfaces created so far
  native,    \* of every player: whether its memory is allocated
  plays,     \* the streams that it plays
  added,     \* what add_stream returned for them
  poll,      \* where the polling thread is
  asked,     \* the handle that it has passed to the call it is in
  info       \* the object that the last call of video_info or audio_info returned

uiVars   == <<ui, exit, handle, made, native, plays, added>>
pollVars == <<poll, asked, info>>
vars     == <<uiVars, pollVars>>

Init ==
  /\ ui = "noSurface" /\ exit = FALSE /\ handle = 0 /\ made = 0
  /\ native = [p \in Player |-> "none"]
  /\ plays = [p \in Player |-> {}]
  /\ added = [k \in Kind |-> -1]
  /\ poll = "off" /\ asked = 0 /\ info = [k \in Kind |-> "null"]

-----------------------------------------------------------------------------
(* The end of onCreate. *)
StartPolling ==
  /\ poll = "off"
  /\ poll' = "video"
  /\ UNCHANGED <<uiVars, asked, info>>

(* surfaceCreated: create_rtp_player, which may find no window or fail in  *)
(* RtpPlayer::build, then add_stream twice.                                *)
CreateRtpPlayer(ok) ==
  /\ ui = "noSurface" /\ made < MaxPlayers
  /\ made' = made + 1
  /\ handle' = IF ok THEN made' ELSE 0
  /\ native' = [native EXCEPT ![made'] = IF ok THEN "live" ELSE @]
  /\ ui' = "video"
  /\ UNCHANGED <<exit, plays, added, pollVars>>

(* add_stream returns 0 whether or not the stream could be built.          *)
AddStream(k, ok) ==
  /\ ui = k
  /\ added' = [added EXCEPT ![k] = IF handle = 0 THEN -1 ELSE 0]
  /\ plays' = [p \in Player |->
                 plays[p] \cup IF p = handle /\ ok THEN {k} ELSE {}]
  /\ ui' = IF k = "video" THEN "audio" ELSE "surface"
  /\ UNCHANGED <<exit, handle, made, native, pollVars>>

(* surfaceDestroyed: exit, then destroy_rtp_player.                        *)
SurfaceDestroyed ==
  /\ ui = "surface"
  /\ exit' = TRUE
  /\ ui' = "destroy"
  /\ UNCHANGED <<handle, made, native, plays, added, pollVars>>

DestroyRtpPlayer ==
  /\ ui = "destroy"
  /\ native' = [p \in Player |-> IF p = handle THEN "freed" ELSE native[p]]
  /\ ui' = "noSurface"
  /\ UNCHANGED <<exit, handle, made, plays, added, pollVars>>

-----------------------------------------------------------------------------
(* The field handle may be read as it once was: nothing orders the two     *)
(* threads.                                                                *)
HandleSeen == {0, handle} \cup {p \in Player : native[p] # "none"}

Call(k) ==
  /\ poll = k
  /\ \E h \in HandleSeen : asked' = h
  /\ poll' = IF k = "video" THEN "inVideo" ELSE "inAudio"
  /\ UNCHANGED <<uiVars, info>>

(* A local variable that was never given a value, or what is read from     *)
(* freed memory: the machine may have anything there.                      *)
Undefined == {"null", "garbage"}

(* video_info and audio_info build an object if the player has statistics; *)
(* else they return their variable object without a value.                 *)
Returned(k) ==
  IF asked # 0 /\ native[asked] = "live" /\ k \in plays[asked] THEN {"info"} ELSE Undefined

Return(k) ==
  /\ poll = IF k = "video" THEN "inVideo" ELSE "inAudio"
  /\ \E object \in Returned(k) : info' = [info EXCEPT ![k] = object]
  /\ poll' = IF k = "video" THEN "audio" ELSE "sleep"
  /\ UNCHANGED <<uiVars, asked>>

(* get_play_time_ms changes nothing; then the thread sleeps and tests exit.*)
Sleep ==
  /\ poll = "sleep"
  /\ poll' = IF exit THEN "ended" ELSE "video"
  /\ UNCHANGED <<uiVars, asked, info>>

UserInterface ==
  \/ \E ok \in BOOLEAN : CreateRtpPlayer(ok) \/ \E k \in Kind : AddStream(k, ok)
  \/ SurfaceDestroyed \/ DestroyRtpPlayer

Polling ==
  \/ \E k \in Kind : Call(k) \/ Return(k)
  \/ Sleep

Next == StartPolling \/ UserInterface \/ Polling

Spec == Init /\ [][Next]_vars

-----------------------------------------------------------------------------
(* The activity tests what it gets against null and uses the fields of     *)
(* everything else ("info != null && info.width != 0",                     *)
(* MainActivity.java:97, 104): whatever state the player is in, the native *)
(* side returns an object or null.                                         *)
InfoIsNullOrValid == \A k \in Kind : info[k] \in {"null", "info"}
=============================================================================
