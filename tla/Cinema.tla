--------------------------------- MODULE Cinema ---------------------------------
(***************************************************************************)
(* The film club of one server: movie nights (poll, announcement, session) *)
(* and the collection of ratings that ends them.                           *)
(*                                                                         *)
(*   application/cinema/use_cases.py             the transactions          *)
(*   infrastructure/db/repositories/cinema.py    their locks and SELECTs   *)
(*   infrastructure/discord/cogs/cinema/*.py     commands, buttons, timers *)
(*                                                                         *)
(* A transaction that locks its row first is one action; one that reads    *)
(* without a lock is two, and another may come in between when Overlap     *)
(* holds. Timers live in the process, rows survive it. Definitions marked  *)
(* "mutant" are bugs the runs must notice.                                 *)
(***************************************************************************)
EXTENDS Integers, FiniteSets

CONSTANTS
    Movies, Nights, Users, \* rows and members
    Starters,              \* /movie night start commands at the same time
    None,
    Overlap,               \* may another transaction come between a read and its write?
    CallsMayFail,          \* may sending a message fail?
    MaxCrashes             \* bound on crashes

VARIABLES
    movie,   \* status of each movie
    night,   \* status of each night, "none" before its row exists
    choice,  \* candidates of each night
    winner,  \* winner_entry_id
    votes,   \* vote of each user in each night
    rated,   \* users whose rating of a movie is stored
    counted, \* users whose rating went into avg_score and ratings_count
    shown,   \* messages with live buttons: <<"poll", n>>, <<"winner", n>>, <<"rating", m>>
    over,    \* nights whose poll_ends_at has passed
    timers,  \* armed timers: <<"poll", n>>, <<"rating", m>>
    todo,    \* what the process has still to post: <<"winner", n>>, <<"rating", m>>
    starter, \* starter[s]: None, "insert", or the night to post
    options, \* options[s]: the candidates it has read
    removing, \* movies that a /movie remove has read as listed
    click,   \* click[u]: None or the write that follows the read
    final,   \* final[m]: None or what the transaction has read
    up, crashes

rows == <<movie, night, choice, winner, votes, rated, counted>>
process == <<timers, todo, starter, options, removing, click, final>>
vars == <<rows, shown, over, process, up, crashes>>

Init ==
    /\ movie = [m \in Movies |-> "listed"]
    /\ night = [n \in Nights |-> "none"]
    /\ choice = [n \in Nights |-> {}]
    /\ winner = [n \in Nights |-> None]
    /\ votes = [n \in Nights |-> [u \in Users |-> None]]
    /\ rated = [m \in Movies |-> {}] /\ counted = [m \in Movies |-> {}]
    /\ shown = {} /\ over = {} /\ timers = {} /\ todo = {}
    /\ starter = [s \in Starters |-> None] /\ options = [s \in Starters |-> {}]
    /\ removing = {}
    /\ click = [u \in Users |-> None]
    /\ final = [m \in Movies |-> None]
    /\ up = TRUE /\ crashes = 0

Active == {n \in Nights : night[n] \in {"poll", "scheduled"}}
Listed == {m \in Movies : movie[m] = "listed"}

Alone ==
    /\ \A s \in Starters : starter[s] # "insert"
    /\ \A u \in Users : click[u] = None
    /\ \A m \in Movies : final[m] = None
    /\ removing = {}
MayBegin == up /\ (Overlap \/ Alone)

(* disable_message: an edit that fails leaves the buttons.                 *)
TakeOff(x) == shown' = shown \ {x} \/ (CallsMayFail /\ UNCHANGED shown)

(***************************************************************************)
(* A movie night.                                                          *)
(***************************************************************************)
IgnoresActive == Listed # {} \* mutant
MayStart == Active = {} /\ Listed # {}

(* StartMovieNightUseCase reads; "busy" and "empty" change nothing.        *)
StartNight(s) ==
    /\ MayBegin /\ starter[s] = None /\ MayStart
    /\ starter' = [starter EXCEPT ![s] = "insert"]
    /\ options' = [options EXCEPT ![s] = Listed]
    /\ UNCHANGED <<rows, shown, over, timers, todo, removing, click, final, up, crashes>>

InsertNight(s) ==
    /\ up /\ starter[s] = "insert"
    /\ \E n \in Nights :
        /\ night[n] = "none"
        /\ night' = [night EXCEPT ![n] = "poll"]
        /\ choice' = [choice EXCEPT ![n] = options[s]]
        /\ starter' = [starter EXCEPT ![s] = n]
    /\ options' = [options EXCEPT ![s] = {}]
    /\ UNCHANGED <<movie, winner, votes, rated, counted, shown, over, timers, todo, removing,
                   click, final, up, crashes>>

(* The poll's message, its registration and the timer; a failing send      *)
(* leaves the row with neither.                                            *)
PostPoll(s) ==
    /\ up /\ starter[s] \in Nights
    /\ \/ shown' = shown \cup {<<"poll", starter[s]>>} /\ timers' = timers \cup {<<"poll", starter[s]>>}
       \/ CallsMayFail /\ UNCHANGED <<shown, timers>>
    /\ starter' = [starter EXCEPT ![s] = None]
    /\ UNCHANGED <<rows, over, todo, options, removing, click, final, up, crashes>>

PollEnds(n) ==
    /\ night[n] # "none" /\ n \notin over
    /\ over' = over \cup {n}
    /\ UNCHANGED <<rows, shown, process, up, crashes>>

(* Buttons. The read decides "closed"; the write follows.                  *)
ReadVote(u, n, m) ==
    /\ MayBegin /\ click[u] = None
    /\ <<"poll", n>> \in shown /\ night[n] = "poll" /\ n \notin over /\ m \in choice[n]
    /\ click' = [click EXCEPT ![u] = [kind |-> "vote", at |-> n, movie |-> m]]
    /\ UNCHANGED <<rows, shown, over, timers, todo, starter, options, removing, final, up,
                   crashes>>

Rateable(m) == movie[m] = "rating"

ReadRating(u, m) ==
    /\ MayBegin /\ click[u] = None
    /\ <<"rating", m>> \in shown /\ Rateable(m)
    /\ click' = [click EXCEPT ![u] = [kind |-> "rate", at |-> None, movie |-> m]]
    /\ UNCHANGED <<rows, shown, over, timers, todo, starter, options, removing, final, up,
                   crashes>>

WriteClick(u) ==
    /\ up /\ click[u] # None
    /\ LET c == click[u] IN
        IF c.kind = "vote"
          THEN votes' = [votes EXCEPT ![c.at][u] = c.movie] /\ UNCHANGED rated
          ELSE rated' = [rated EXCEPT ![c.movie] = @ \cup {u}] /\ UNCHANGED votes
    /\ click' = [click EXCEPT ![u] = None]
    /\ UNCHANGED <<movie, night, choice, winner, counted, shown, over, timers, todo,
                   starter, options, removing, final, up, crashes>>

Tally(n, m) == Cardinality({u \in Users : votes[n][u] = m})
Elected(n) == {m \in Movies : Tally(n, m) > 0 /\ \A k \in Movies : Tally(n, m) >= Tally(n, k)}
Crowned(n, m) == [winner EXCEPT ![n] = m]

(* Ties are broken by the watchlist and then at random.                    *)
Elect(n) ==
    IF Elected(n) = {}
      THEN night' = [night EXCEPT ![n] = "cancelled"] /\ UNCHANGED <<winner, todo>>
      ELSE \E m \in Elected(n) :
        IF movie[m] = "removed"
          THEN night' = [night EXCEPT ![n] = "cancelled"] /\ UNCHANGED <<winner, todo>>
          ELSE /\ night' = [night EXCEPT ![n] = "scheduled"]
               /\ winner' = Crowned(n, m)
               /\ todo' = todo \cup {<<"winner", n>>}

(* The timer of the poll: CloseNightPollUseCase under FOR UPDATE, and the  *)
(* poll's buttons come off.                                                *)
ClosePoll(n) ==
    /\ MayBegin /\ <<"poll", n>> \in timers /\ n \in over
    /\ timers' = timers \ {<<"poll", n>>}
    /\ IF night[n] = "poll"
         THEN Elect(n) /\ TakeOff(<<"poll", n>>)
         ELSE UNCHANGED <<night, winner, todo, shown>>
    /\ UNCHANGED <<movie, choice, votes, rated, counted, over, starter, options, removing,
                   click, final, up, crashes>>

(* The announcement of the winner, or the card for ratings with its timer. *)
Post(x) ==
    /\ up /\ x \in todo
    /\ todo' = todo \ {x}
    /\ \/ /\ shown' = shown \cup {x}
          /\ timers' = IF x[1] = "rating" THEN timers \cup {x} ELSE timers
       \/ CallsMayFail /\ UNCHANGED <<shown, timers>>
    /\ UNCHANGED <<rows, over, starter, options, removing, click, final, up, crashes>>

(* /movie night cancel, under FOR UPDATE; the poll's task is cancelled,    *)
(* with the announcement it may be busy with.                              *)
CancelNight(n) ==
    /\ MayBegin /\ n \in Active
    /\ night' = [night EXCEPT ![n] = "cancelled"]
    /\ timers' = timers \ {<<"poll", n>>}
    /\ todo' = todo \ {<<"winner", n>>}
    /\ TakeOff(<<"poll", n>>)
    /\ UNCHANGED <<movie, choice, winner, votes, rated, counted, over, starter, options,
                   removing, click, final, up, crashes>>

(* /movie remove reads the status without a lock ...                       *)
StartRemove(m) ==
    /\ MayBegin /\ m \in Listed \ removing
    /\ removing' = removing \cup {m}
    /\ UNCHANGED <<rows, shown, over, timers, todo, starter, options, click, final, up, crashes>>

(* ... and deletes the row by its id, whatever its status is by then; the  *)
(* DELETE waits for a transaction that holds the row's lock.               *)
RemoveMovie(m) ==
    /\ up /\ m \in removing /\ final[m] = None
    /\ movie' = [movie EXCEPT ![m] = "removed"]
    /\ removing' = removing \ {m}
    /\ UNCHANGED <<night, choice, winner, votes, rated, counted, shown, over, timers, todo,
                   starter, options, click, final, up, crashes>>

(***************************************************************************)
(* Ratings.                                                                *)
(***************************************************************************)
(* OpenRatingUseCase under FOR UPDATE, from /movie watched or from the     *)
(* button under the announcement of a scheduled night.                     *)
OpenRating(m) ==
    /\ MayBegin /\ m \in Listed
    /\ movie' = [movie EXCEPT ![m] = "rating"]
    /\ \/ UNCHANGED shown
       \/ \E n \in Nights :
            /\ <<"winner", n>> \in shown /\ winner[n] = m /\ night[n] = "scheduled"
            /\ TakeOff(<<"winner", n>>)
    /\ todo' = todo \cup {<<"rating", m>>}
    /\ UNCHANGED <<night, choice, winner, votes, rated, counted, over, timers, starter,
                   options, removing, click, final, up, crashes>>

Waiting(m) == {n \in Nights : winner[n] = m /\ night[n] = "scheduled"}

(* The timer of the collection: the movie is locked, its ratings and its   *)
(* scheduled nights are read.                                              *)
ReadFinal(m) ==
    /\ MayBegin /\ <<"rating", m>> \in timers /\ final[m] = None
    /\ timers' = timers \ {<<"rating", m>>}
    /\ final' = IF movie[m] = "rating"
                  THEN [final EXCEPT ![m] = [ratings |-> rated[m], nights |-> Waiting(m)]]
                  ELSE final
    /\ UNCHANGED <<rows, shown, over, todo, starter, options, removing, click, up, crashes>>

Finished(m) == [n \in Nights |-> IF n \in final[m].nights THEN "done" ELSE night[n]]

WriteFinal(m) ==
    /\ up /\ final[m] # None
    /\ movie' = [movie EXCEPT ![m] = "watched"]
    /\ counted' = [counted EXCEPT ![m] = final[m].ratings]
    /\ night' = Finished(m)
    /\ TakeOff(<<"rating", m>>)
    /\ final' = [final EXCEPT ![m] = None]
    /\ UNCHANGED <<choice, winner, votes, rated, over, timers, todo, starter, options, removing,
                   click, up, crashes>>

(***************************************************************************)
(* The process.                                                            *)
(***************************************************************************)
Crash ==
    /\ up /\ crashes < MaxCrashes
    /\ up' = FALSE /\ crashes' = crashes + 1
    /\ timers' = {} /\ todo' = {}
    /\ starter' = [s \in Starters |-> None] /\ options' = [s \in Starters |-> {}]
    /\ removing' = {}
    /\ click' = [u \in Users |-> None]
    /\ final' = [m \in Movies |-> None]
    /\ UNCHANGED <<rows, shown, over>>

RatingsOnly == {<<"rating", m>> : m \in {k \in Movies : movie[k] = "rating"}} \* mutant
Unfinished ==
    {<<"poll", n>> : n \in {k \in Nights : night[k] = "poll"}}
        \cup {<<"rating", m>> : m \in {k \in Movies : movie[k] = "rating"}}

(* on_ready arms the timers of every unfinished row.                       *)
Restart ==
    /\ ~up /\ up' = TRUE
    /\ timers' = Unfinished
    /\ UNCHANGED <<rows, shown, over, todo, starter, options, removing, click, final, crashes>>

Begun ==
    \/ \E s \in Starters : InsertNight(s) \/ PostPoll(s)
    \/ \E u \in Users : WriteClick(u)
    \/ \E m \in Movies : ReadFinal(m) \/ WriteFinal(m) \/ RemoveMovie(m)
    \/ \E n \in Nights : PollEnds(n) \/ ClosePoll(n)
    \/ \E x \in todo : Post(x)
    \/ Restart

Asked ==
    \/ \E s \in Starters : StartNight(s)
    \/ \E u \in Users, m \in Movies : ReadRating(u, m) \/ \E n \in Nights : ReadVote(u, n, m)
    \/ \E n \in Nights : CancelNight(n)
    \/ \E m \in Movies : StartRemove(m) \/ OpenRating(m)

Next == Begun \/ Asked \/ Crash

Spec == Init /\ [][Next]_vars

-----------------------------------------------------------------------------
Clicks == [kind : {"vote", "rate"}, at : Nights \cup {None}, movie : Movies]
Finals == [ratings : SUBSET Users, nights : SUBSET Nights]

(* Every variable has its type, and a night has a winner exactly once its  *)
(* poll has elected one.                                                   *)
TypeOK ==
    /\ movie \in [Movies -> {"listed", "rating", "watched", "removed"}]
    /\ night \in [Nights -> {"none", "poll", "scheduled", "done", "cancelled"}]
    /\ choice \in [Nights -> SUBSET Movies]
    /\ winner \in [Nights -> Movies \cup {None}]
    /\ votes \in [Nights -> [Users -> Movies \cup {None}]]
    /\ rated \in [Movies -> SUBSET Users] /\ counted \in [Movies -> SUBSET Users]
    /\ shown \subseteq ({"poll", "winner"} \X Nights) \cup ({"rating"} \X Movies)
    /\ over \subseteq Nights
    /\ timers \subseteq ({"poll"} \X Nights) \cup ({"rating"} \X Movies)
    /\ todo \subseteq ({"winner"} \X Nights) \cup ({"rating"} \X Movies)
    /\ starter \in [Starters -> Nights \cup {None, "insert"}]
    /\ options \in [Starters -> SUBSET Movies] /\ removing \subseteq Movies
    /\ click \in [Users -> Clicks \cup {None}]
    /\ final \in [Movies -> Finals \cup {None}]
    /\ up \in BOOLEAN /\ crashes \in 0..MaxCrashes
    /\ \A n \in Nights :
        /\ night[n] \in {"scheduled", "done"} => winner[n] \in choice[n]
        /\ night[n] \in {"none", "poll"} => winner[n] = None

(* "busy": a server has one poll or scheduled night at a time.             *)
OneActiveNight == \A n, k \in Active : n = k

(* Ratings are "written only while they are collected": the average of a   *)
(* watched movie is the average of what is stored.                         *)
EveryRatingCounts == \A m \in Movies : movie[m] = "watched" => counted[m] = rated[m]

(* A night ends as done only with its movie watched.                       *)
DoneIsWatched == \A n \in Nights : night[n] = "done" => movie[winner[n]] = "watched"

(* "Timers restored after a restart": no poll and no collection of ratings *)
(* that was posted, or whose timer was armed, stays open for ever, except  *)
(* a collection of a movie that a /movie remove begun earlier still        *)
(* deletes: its row is gone and it ends without a result.                  *)
EverythingCloses ==
    /\ \A n \in Nights :
        night[n] = "poll" /\ <<"poll", n>> \in shown \cup timers ~> night[n] # "poll"
    /\ \A m \in Movies :
        movie[m] = "rating" /\ m \notin removing /\ <<"rating", m>> \in shown \cup timers
            ~> movie[m] = "watched"
=============================================================================
