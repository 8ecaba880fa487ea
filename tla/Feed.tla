-------------------------------- MODULE Feed --------------------------------
(***************************************************************************)
(* The community feed of one estate (client/routes/feed.py): posts, their  *)
(* replies and polls, likes, votes and favorite residents.                 *)
(*                                                                         *)
(* A like, a vote and a favorite are each a row that is inserted when a    *)
(* query has found none; the tables have no constraint against two.  The   *)
(* author's delete of a post is soft and takes along the rows that hung on *)
(* the post when it was loaded.                                            *)
(***************************************************************************)
EXTENDS Integers, FiniteSets, FiniteSetsExt

CONSTANTS
    Neighbors,      \* residents of the estate
    Housed,         \* those of them with a unit in their context
    Posts,          \* ids of posts: a bound on the posts ever made
    FeedRequests,   \* requests the service works on at a time
    MaxMarked,      \* bound on the likes, votes and favorites at a time
    MaxMarkRows,    \* bound on the rows of one of them
    MaxCrossed,     \* bound on what requests have worked on at once
    NoPost          \* the parent of a top-level post

ASSUME MarksAreBounded ==
    /\ {MaxMarked, MaxMarkRows, MaxCrossed} \subseteq Nat
    /\ IsFiniteSet(Neighbors) /\ Housed \subseteq Neighbors
    /\ NoPost \notin Posts

VARIABLES
    post,           \* feed_posts
    marks,          \* rows of feed_post_likes, feed_poll_votes, user_favorites
    feedRequest,    \* the requests under way
    refused,        \* history: a constraint has refused the deletion of a post
    feedCrossed     \* history: what two requests have worked on at once

feedVars == <<post, marks, feedRequest, refused, feedCrossed>>

-----------------------------------------------------------------------------
Unmade == [state |-> "unmade"]
Post == [state : {"up", "deleted"}, author : Neighbors, parent : Posts \cup {NoPost},
         poll : BOOLEAN]

MarkKeys == [kind : {"like", "vote"}, of : Posts, by : Neighbors]
            \cup [kind : {"favorite"}, of : Neighbors, by : Neighbors]

FeedIdle == [op |-> "idle"]
FeedRequest == [op : {"mark"}, key : MarkKeys]
               \cup [op : {"reply"}, by : Housed, to : Posts]
               \cup [op : {"delete"}, posts : SUBSET Posts]

FeedTypeOK ==
    /\ post \in [Posts -> {Unmade} \cup Post]
    /\ marks \in [MarkKeys -> 0..MaxMarkRows]
    /\ feedRequest \in [FeedRequests -> {FeedIdle} \cup FeedRequest]
    /\ refused \in BOOLEAN
    /\ feedCrossed \subseteq Posts \cup MarkKeys

FeedInit ==
    /\ post = [p \in Posts |-> Unmade]
    /\ marks = [k \in MarkKeys |-> 0]
    /\ feedRequest = [r \in FeedRequests |-> FeedIdle]
    /\ refused = FALSE
    /\ feedCrossed = {}

Up(p) == post[p].state = "up"
TopLevel(p) == post[p].parent = NoPost
HasPoll(p) == Up(p) /\ post[p].poll
RepliesTo(p) == {q \in Posts : Up(q) /\ post[q].parent = p}

\* Two requests meet on the posts and marks in S.
Cross(S) ==
    /\ feedCrossed' = feedCrossed \cup S
    /\ Cardinality(feedCrossed') <= MaxCrossed

InFlight(r, op) == {feedRequest[s] : s \in {t \in FeedRequests \ {r} :
                                            feedRequest[t].op = op}}
FeedEnd(r) == feedRequest' = [feedRequest EXCEPT ![r] = FeedIdle]

\* What the readers of the feed are shown of a post.
LikeCount(p) == SumFunction([u \in Neighbors |->
                                marks[[kind |-> "like", of |-> p, by |-> u]]])
VoteCount(p) == SumFunction([u \in Neighbors |->
                                marks[[kind |-> "vote", of |-> p, by |-> u]]])
ReplyCount(p) == Cardinality(RepliesTo(p))

-----------------------------------------------------------------------------
Insert(u, parent, poll) ==
    \E p \in Posts :
       /\ post[p] = Unmade
       /\ post' = [post EXCEPT ![p] = [state |-> "up", author |-> u, parent |-> parent,
                                       poll |-> poll]]

\* A post needs a unit, a reply as well.
CreatePost(u, poll) ==
    /\ u \in Housed
    /\ Insert(u, NoPost, poll)
    /\ UNCHANGED <<marks, feedRequest, refused, feedCrossed>>

ReplyLoad(r, u, p) ==
    /\ feedRequest[r] = FeedIdle
    /\ Up(p) /\ u \in Housed
    /\ feedRequest' = [feedRequest EXCEPT ![r] = [op |-> "reply", by |-> u, to |-> p]]
    /\ Cross({q \in {p} : \E d \in InFlight(r, "delete") : p \in d.posts})
    /\ UNCHANGED <<post, marks, refused>>

Reply(r) ==
    /\ feedRequest[r].op = "reply"
    /\ Insert(feedRequest[r].by, feedRequest[r].to, FALSE)
    /\ FeedEnd(r)
    /\ UNCHANGED <<marks, refused, feedCrossed>>

-----------------------------------------------------------------------------
MetBy(r, k) ==
    {j \in {k} : \E m \in InFlight(r, "mark") : m.key = k}
    \cup {p \in Posts : p = k.of /\ \E d \in InFlight(r, "delete") : p \in d.posts}

MarkLoadBlind(r, k) ==
    /\ feedRequest[r] = FeedIdle
    /\ feedRequest' = [feedRequest EXCEPT ![r] = [op |-> "mark", key |-> k]]
    /\ Cross(MetBy(r, k))
    /\ UNCHANGED <<post, marks, refused>>

\* The query for the row has found none, and a row is going to be inserted.
MarkLoad(r, k) ==
    /\ feedRequest[r] = FeedIdle
    /\ marks[k] = 0
    /\ feedRequest' = [feedRequest EXCEPT ![r] = [op |-> "mark", key |-> k]]
    /\ Cross(MetBy(r, k))
    /\ UNCHANGED <<post, marks, refused>>

Like(r, u, p) ==
    /\ Up(p)
    /\ MarkLoad(r, [kind |-> "like", of |-> p, by |-> u])

Vote(r, u, p) ==
    /\ HasPoll(p)
    /\ MarkLoad(r, [kind |-> "vote", of |-> p, by |-> u])

Favorite(r, u, v) == MarkLoad(r, [kind |-> "favorite", of |-> v, by |-> u])

Mark(r) ==
    /\ feedRequest[r].op = "mark"
    /\ marks[feedRequest[r].key] < MaxMarkRows
    /\ marks' = [marks EXCEPT ![feedRequest[r].key] = @ + 1]
    /\ Cardinality({k \in MarkKeys : marks'[k] > 0}) <= MaxMarked
    /\ FeedEnd(r)
    /\ UNCHANGED <<post, refused, feedCrossed>>

\* One of the user's likes of the post goes.  A vote stays.
Unlike(u, p) ==
    LET k == [kind |-> "like", of |-> p, by |-> u] IN
        /\ Up(p) /\ marks[k] > 0
        /\ marks' = [marks EXCEPT ![k] = @ - 1]
        /\ UNCHANGED <<post, feedRequest, refused, feedCrossed>>

\* All rows of the favorite go.
RemoveFavorite(u, v) ==
    /\ marks' = [marks EXCEPT ![[kind |-> "favorite", of |-> v, by |-> u]] = 0]
    /\ UNCHANGED <<post, feedRequest, refused, feedCrossed>>

-----------------------------------------------------------------------------
\* The replies to a top-level post go with it, those to a reply do not.
Targets(p) == IF TopLevel(p) THEN {p} \cup RepliesTo(p) ELSE {p}

DeleteLoad(r, u, p) ==
    /\ feedRequest[r] = FeedIdle
    /\ Up(p) /\ post[p].author = u
    /\ feedRequest' = [feedRequest EXCEPT ![r] = [op |-> "delete", posts |-> Targets(p)]]
    /\ Cross({q \in Targets(p) : \/ \E m \in InFlight(r, "mark") : m.key.of = q
                                 \/ \E m \in InFlight(r, "reply") : m.to = q})
    /\ UNCHANGED <<post, marks, refused>>

\* The likes go and the posts are flagged.
Delete(r) ==
    /\ feedRequest[r].op = "delete"
    /\ \A p \in feedRequest[r].posts : ~post[p].poll
    /\ marks' = [k \in MarkKeys |-> IF k.kind = "like" /\ k.of \in feedRequest[r].posts
                                    THEN 0 ELSE marks[k]]
    /\ post' = [p \in Posts |-> IF p \in feedRequest[r].posts
                                THEN [post[p] EXCEPT !.state = "deleted"] ELSE post[p]]
    /\ FeedEnd(r)
    /\ UNCHANGED <<refused, feedCrossed>>

\* The poll is deleted while its post still refers to it: the foreign key of
\* feed_posts.poll_id refuses, and nothing of the request is kept.
DeleteRefused(r) ==
    /\ feedRequest[r].op = "delete"
    /\ \E p \in feedRequest[r].posts : post[p].poll
    /\ refused' = TRUE
    /\ FeedEnd(r)
    /\ UNCHANGED <<post, marks, feedCrossed>>

\* The request is rejected later on, or its process dies.
FeedBreak(r) ==
    /\ feedRequest[r] # FeedIdle
    /\ FeedEnd(r)
    /\ UNCHANGED <<post, marks, refused, feedCrossed>>

FeedNext ==
    \/ \E u \in Neighbors, poll \in BOOLEAN : CreatePost(u, poll)
    \/ \E u \in Neighbors, p \in Posts : Unlike(u, p)
    \/ \E u, v \in Neighbors : RemoveFavorite(u, v)
    \/ \E r \in FeedRequests :
          \/ Reply(r) \/ Mark(r) \/ Delete(r) \/ DeleteRefused(r) \/ FeedBreak(r)
          \/ \E u \in Neighbors, p \in Posts :
                Like(r, u, p) \/ Vote(r, u, p) \/ ReplyLoad(r, u, p) \/ DeleteLoad(r, u, p)
          \/ \E u, v \in Neighbors : Favorite(r, u, v)

FeedSpec == FeedInit /\ [][FeedNext]_feedVars

-----------------------------------------------------------------------------
(* Properties.                                                             *)

\* Nobody counts twice among the likes or votes of a post or is twice a
\* favorite (feed.py:566, 617, 745), and a deleted post has neither likes nor,
\* at the top level, replies (feed.py:645-669), unless two requests had both
\* checked before either wrote.
FeedIsSound ==
    /\ \A k \in MarkKeys \ feedCrossed : marks[k] <= 1
    /\ \A p \in Posts \ feedCrossed :
          post[p].state = "deleted" =>
              LikeCount(p) + VoteCount(p) = 0 /\ (TopLevel(p) => ReplyCount(p) = 0)

\* No author is refused the deletion of a post of his own: the post is soft
\* deleted and "only the post author can delete" (FEED_FRONTEND_INTEGRATION.md).
AuthorsCanDelete == ~refused
=============================================================================
