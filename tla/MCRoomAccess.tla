---------------------------- MODULE MCRoomAccess ----------------------------
(* One member with two devices.                                            *)
EXTENDS RoomAccess, TLC

CONSTANTS s1, s2, phone, laptop, ann

MCOpened == (s1 :> phone) @@ (s2 :> laptop)
MCHolder == (phone :> ann) @@ (laptop :> ann)
=============================================================================
