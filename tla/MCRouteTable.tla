---------------------------- MODULE MCRouteTable ----------------------------
(***************************************************************************)
(* Up to three routes of five patterns: /users, /:id, /users/:id,          *)
(* /:id/posts and /users/:id.json, and paths of two words at most.  The    *)
(* session is of all routes; those of /users are in a group with auth.     *)
(***************************************************************************)
EXTENDS RouteTable

CONSTANTS users, posts, file, Session, Auth

PatternChoice ==
    {<<Literal(users)>>, <<Param>>, <<Literal(users), Param>>,
     <<Param, Literal(posts)>>, <<Literal(users), Mixed>>}

ScopeChoice ==
    [pattern \in PatternChoice |->
        {IF pattern[1] = Literal(users) THEN {Session, Auth} ELSE {Session}}]

PathChoice == SeqOf({users, posts, file}, 2)
=============================================================================
