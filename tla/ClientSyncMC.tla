---------------------------- MODULE ClientSyncMC ----------------------------
(* Model checking of ClientSync: the first of two users at the client. *)
EXTENDS ClientCopy

CONSTANTS ann, bob, one, two

MCNames == {ann, bob}
MCTexts == {one, two}
MCBodies == [done : BOOLEAN, text : MCTexts]
MCFirstBody == [done |-> FALSE, text |-> one]

(* Two clicks of the user, by what they are about, or one click and one request
   of another client. *)
MCPlans ==
    {[clicks |-> {"toggleTaskCompletion", "editTask", "deleteTask", "createTask",
                  "deleteGroup", "cancelInvite", "denyInvite"},
      limit |-> 2, foreign |-> {}, relation |-> "invited"],
     [clicks |-> {"togglePinGroup", "createGroup", "sendMessage", "acceptInvite",
                  "removeMemberFromGroup", "logOut"},
      limit |-> 2, foreign |-> {}, relation |-> "member"],
     [clicks |-> {"inviteMemberToGroup"},
      limit |-> 2, foreign |-> {}, relation |-> "member"],
     [clicks |-> {"togglePinGroup"},
      limit |-> 1, foreign |-> {"groups"}, relation |-> "member"],
     [clicks |-> {"toggleTaskCompletion"},
      limit |-> 1, foreign |-> {"tasks"}, relation |-> "member"]}
============================================================================
