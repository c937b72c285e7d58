---------------------------- MODULE MCDispatcher -----------------------------
(* RsvpDispatcher for TLC: the headers of objects from elsewhere.           *)
EXTENDS RsvpDispatcher

MCForeignObjs ==
    [class : {"SENDER_TEMPLATE", "SESSION_ATTRIB"}, c_type : {1, 7},
     length : {0, 7, 10, 12, 16}, name : {9}]
    \cup [class : {"SESSION", "OTHER_LOW", "OTHER_HIGH"}, c_type : {7},
          length : {4, 16}, name : {0}]
=============================================================================
