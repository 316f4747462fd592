---------------------------- MODULE MCWorkspace ----------------------------
(* Windows of a VT420, with two sessions at most, and of a VT520 with four.  *)
EXTENDS Workspace

\* All four asked for; opened as the user goes; file transfers with one other
\* session; and more asked for than the model takes, of connections that are
\* kept when they close and of ones that are not.
MCCourses ==
  {[most |-> 4, sessions |-> 4, own |-> TRUE, kept |-> {TRUE}, ids |-> 4, transfers |-> 0],
   [most |-> 4, sessions |-> 1, own |-> TRUE, kept |-> {TRUE}, ids |-> 4, transfers |-> 0],
   [most |-> 2, sessions |-> 2, own |-> TRUE, kept |-> {TRUE}, ids |-> 2, transfers |-> 3],
   [most |-> 2, sessions |-> 4, own |-> FALSE, kept |-> BOOLEAN, ids |-> 4, transfers |-> 0]}
=============================================================================
