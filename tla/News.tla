----------------------------------- MODULE News -----------------------------------
(***************************************************************************)
(* News of games and releases of repositories, posted to a thread each.    *)
(*                                                                         *)
(*   application/news/poller.py                 the timer                  *)
(*   application/{repos,steam,riot}/use_cases.py  the poll, marks          *)
(*   infrastructure/discord/cogs/{git,steam,riot}.py  threads, sending     *)
(*                                                                         *)
(* The three trackers are alike; GitHub's asks with the ETag of what it    *)
(* has seen and stops short of its limit, Riot's removes the thread of an  *)
(* addition that came second. Items are numbered as their markers compare; *)
(* an ETag stands for the page it came with.                               *)
(***************************************************************************)
EXTENDS Integers, FiniteSets, Sequences, SequencesExt

CONSTANTS
    Games,
    MaxItems,
    PerCycle,    \* _MAX_ANNOUNCE_PER_CYCLE
    Adders,      \* additions that may be under way at the same time
    MaxAdds, MaxFaults \* bounds

Items == 1 .. MaxItems
Threads == 1 .. MaxAdds

VARIABLES
    tracker, \* which of the three it is: "git", "steam", "riot"
    feed,    \* what is published, by game
    rows,    \* tracked games; the id of a row is the number of its thread
    threads, \* threads that exist
    told,    \* told[t]: what the poll has posted to thread t, in order
    pc,      \* the poll: "sleep", "fetch", "send", "mark"
    ahead,   \* rows the poll has still to ask about
    updates, \* what it has found: [row, fresh, etag]
    etags,   \* ETags of pages without news, saved together
    adder,   \* an addition under way, [at, game, base, thread]
    adds, faults,
    skipped, \* history: items that came with an old date, or were too many
    unmarked \* history: items posted whose mark was lost

polling == <<pc, ahead, updates, etags>>
newsVars == <<tracker, feed, rows, threads, told, polling, adder, adds, faults, skipped, unmarked>>

Conditional == tracker = "git"
CleansUp == tracker = "riot"

NoAdd(a) == [at |-> "idle", game |-> CHOOSE g \in Games : TRUE, base |-> 0, thread |-> 0]
Init ==
    /\ tracker \in {"git", "steam", "riot"}
    /\ feed \in [Games -> {{}, {1}}] /\ rows = {} /\ threads = {}
    /\ told = [t \in Threads |-> <<>>]
    /\ pc = "sleep" /\ ahead = {} /\ updates = <<>> /\ etags = {}
    /\ adder = [a \in Adders |-> NoAdd(a)] /\ adds = 0 /\ faults \in 0 .. MaxFaults
    /\ skipped = {} /\ unmarked = {}

Fault == faults < MaxFaults /\ faults' = faults + 1
Latest(page) == IF page = {} THEN 0 ELSE CHOOSE n \in page : \A m \in page : m <= n

Publish(g, n) ==
    /\ n \notin feed[g]
    /\ feed' = [feed EXCEPT ![g] = @ \cup {n}]
    /\ IF n > Latest(feed[g]) THEN UNCHANGED <<skipped, faults>>
                              ELSE Fault /\ skipped' = skipped \cup {<<t, n>> : t \in Threads}
    /\ UNCHANGED <<tracker, rows, threads, told, polling, adder, adds, unmarked>>

-----------------------------------------------------------------------------
(* An addition: the page, the look-up of the row, the thread, the row. A   *)
(* page that cannot be had leaves no mark (GitHub, Steam).                 *)
Step(a, s) == adder' = [adder EXCEPT ![a] = s]
Tracked(g) == \E r \in rows : r.game = g

Add(a, g) ==
    /\ adder[a].at = "idle" /\ adds < MaxAdds /\ ~Tracked(g)
    /\ adds' = adds + 1
    /\ \/ Step(a, [at |-> "thread", game |-> g, base |-> Latest(feed[g]), thread |-> adds'])
          /\ UNCHANGED faults
       \/ ~CleansUp /\ Fault
          /\ Step(a, [at |-> "thread", game |-> g, base |-> 0, thread |-> adds'])
    /\ UNCHANGED <<tracker, feed, rows, threads, told, polling, skipped, unmarked>>

Create(a) ==
    /\ adder[a].at = "thread"
    /\ \/ Step(a, [adder[a] EXCEPT !.at = "row"]) /\ UNCHANGED faults
          /\ threads' = threads \cup {adder[a].thread}
       \/ Step(a, NoAdd(a)) /\ Fault /\ UNCHANGED threads
    /\ UNCHANGED <<tracker, feed, rows, told, polling, adds, skipped, unmarked>>

(* The unique constraint refuses a second row.                             *)
Insert(a) ==
    /\ adder[a].at = "row"
    /\ Step(a, NoAdd(a))
    /\ IF Tracked(adder[a].game)
       THEN /\ threads' = IF CleansUp THEN threads \ {adder[a].thread} ELSE threads
            /\ UNCHANGED rows
       ELSE /\ rows' = rows \cup {[id |-> adder[a].thread, game |-> adder[a].game,
                                   mark |-> adder[a].base, etag |-> {}]}
            /\ UNCHANGED threads
    /\ UNCHANGED <<tracker, feed, told, polling, adds, faults, skipped, unmarked>>

Untrack(r) ==
    /\ rows' = rows \ {r}
    /\ UNCHANGED <<tracker, feed, threads, told, polling, adder, adds, faults, skipped, unmarked>>

-----------------------------------------------------------------------------
(* The poll: all rows are read, then each page is asked for.               *)
Poll ==
    /\ pc = "sleep" /\ rows # {}
    /\ pc' = "fetch" /\ ahead' = rows /\ updates' = <<>> /\ etags' = {}
    /\ UNCHANGED <<tracker, feed, rows, threads, told, adder, adds, faults, skipped, unmarked>>

First(r) == r \in ahead /\ \A q \in ahead : r.id <= q.id
Ordered(page) ==
    CHOOSE s \in [1 .. Cardinality(page) -> page] : \A i, j \in DOMAIN s : i < j => s[i] < s[j]
Newest(s) == IF Len(s) <= PerCycle THEN s ELSE SubSeq(s, Len(s) - PerCycle + 1, Len(s))
Known(r) == Conditional /\ r.etag = {feed[r.game]}
Seen(r) == IF Conditional THEN {<<r.id, feed[r.game]>>} ELSE {}
Update(r, fresh) == [row |-> r, fresh |-> fresh, etag |-> IF Conditional THEN {feed[r.game]} ELSE {}]

Fetch(r) ==
    LET fresh == Ordered({n \in feed[r.game] : n > r.mark})
    IN  /\ pc = "fetch" /\ First(r)
        /\ ahead' = ahead \ {r}
        /\ IF Known(r) THEN UNCHANGED <<updates, etags, skipped>>
           ELSE IF fresh = <<>>
                THEN etags' = etags \cup Seen(r) /\ UNCHANGED <<updates, skipped>>
                ELSE /\ updates' = Append(updates, Update(r, Newest(fresh)))
                     /\ skipped' = skipped \cup
                          {<<r.id, n>> : n \in ToSet(fresh) \ ToSet(Newest(fresh))}
                     /\ UNCHANGED etags
        /\ UNCHANGED <<tracker, feed, rows, threads, told, pc, adder, adds, faults, unmarked>>

(* The page cannot be had.                                                 *)
FetchFails(r) ==
    /\ pc = "fetch" /\ First(r) /\ Fault
    /\ ahead' = ahead \ {r}
    /\ UNCHANGED <<tracker, feed, rows, threads, told, pc, updates, etags, adder, adds, skipped, unmarked>>

(* GitHub's limit is near: the rest waits for the next poll.               *)
Floor ==
    /\ Conditional /\ pc = "fetch" /\ ahead # {} /\ Fault
    /\ ahead' = {}
    /\ UNCHANGED <<tracker, feed, rows, threads, told, pc, updates, etags, adder, adds, skipped, unmarked>>

Fetched ==
    /\ pc = "fetch" /\ ahead = {}
    /\ pc' = "send"
    /\ rows' = {IF \E e \in etags : e[1] = r.id
                THEN [r EXCEPT !.etag = {e[2] : e \in {d \in etags : d[1] = r.id}}] ELSE r
                : r \in rows}
    /\ UNCHANGED <<tracker, feed, threads, told, ahead, updates, etags, adder, adds, faults, skipped, unmarked>>

(* _announce: each item is sent, then marked. When sending fails, or there *)
(* is no thread, the rest of the row's items waits for the next poll.      *)
Now == Head(updates)
Item == Head(Now.fresh)
Send ==
    /\ pc = "send" /\ updates # <<>>
    /\ \/ /\ Now.row.id \in threads
          /\ told' = [told EXCEPT ![Now.row.id] = Append(@, Item)]
          /\ pc' = "mark" /\ UNCHANGED <<updates, faults>>
       \/ Fault /\ updates' = Tail(updates) /\ UNCHANGED <<told, pc>>
    /\ UNCHANGED <<tracker, feed, rows, threads, ahead, etags, adder, adds, skipped, unmarked>>

EtagEachTime(r) == Now.etag  \* mutant
EtagAtLast(r) == IF Len(Now.fresh) = 1 THEN Now.etag ELSE r.etag
NotMoved(r) == r.mark  \* mutant
Moved(r) == Item

Mark ==
    /\ pc = "mark" /\ pc' = "send"
    /\ rows' = {IF r.id = Now.row.id THEN [r EXCEPT !.mark = Moved(r), !.etag = EtagAtLast(r)]
                                     ELSE r : r \in rows}
    /\ updates' = IF Len(Now.fresh) = 1 THEN Tail(updates)
                  ELSE [updates EXCEPT ![1].fresh = Tail(@)]
    /\ UNCHANGED <<tracker, feed, threads, told, ahead, etags, adder, adds, faults, skipped, unmarked>>

(* An error of the database ends the poll.                                 *)
Lost == unmarked \cup IF pc = "mark" THEN {<<Now.row.id, Item>>} ELSE {}
MarkFails ==
    /\ pc = "mark" /\ Fault
    /\ pc' = "sleep" /\ unmarked' = Lost
    /\ ahead' = {} /\ updates' = <<>> /\ etags' = {}
    /\ UNCHANGED <<tracker, feed, rows, threads, told, adder, adds, skipped>>

Done ==
    /\ pc = "send" /\ updates = <<>>
    /\ pc' = "sleep" /\ etags' = {}
    /\ UNCHANGED <<tracker, feed, rows, threads, told, ahead, updates, adder, adds, faults, skipped, unmarked>>

(* The bot dies and is started again.                                      *)
Crash ==
    /\ Fault
    /\ pc' = "sleep" /\ ahead' = {} /\ updates' = <<>> /\ etags' = {} /\ unmarked' = Lost
    /\ adder' = [a \in Adders |-> NoAdd(a)]
    /\ UNCHANGED <<tracker, feed, rows, threads, told, adds, skipped>>

Announcing == Fetched \/ Send \/ Mark \/ MarkFails \/ Done
Next ==
    \/ \E g \in Games : (\E n \in Items : Publish(g, n)) \/ (\E a \in Adders : Add(a, g))
    \/ \E a \in Adders : Create(a) \/ Insert(a)
    \/ \E r \in rows : Untrack(r)
    \/ \E r \in ahead : Fetch(r) \/ FetchFails(r)
    \/ Poll \/ Floor \/ Announcing \/ Crash

Spec == Init /\ [][Next]_newsVars

(* The poller goes on.                                                     *)
Fairness ==
    WF_newsVars(Poll \/ (\E r \in ahead : Fetch(r) \/ FetchFails(r)) \/ Floor \/ Announcing)

TypeOK ==
    /\ feed \in [Games -> SUBSET Items] /\ threads \subseteq Threads
    /\ told \in [Threads -> Seq(Items)]
    /\ \A r, q \in rows : r.id = q.id \/ r.game = q.game => r = q
    /\ pc \in {"sleep", "fetch", "send", "mark"} /\ faults \in 0 .. MaxFaults

-----------------------------------------------------------------------------
(* News come from old to new and once, unless the mark of one was lost     *)
(* between sending and committing it.                                      *)
AnnouncedOnce ==
    \A t \in Threads : \A i, j \in DOMAIN told[t] :
        i < j => told[t][i] < told[t][j] \/ <<t, told[t][i]>> \in unmarked

(* Every item newer than the mark is announced in the end ("отметку не     *)
(* двигаем — повторим на следующем такте", "следующий опрос заново получит *)
(* список"), through failures to fetch, to send and to mark, unless the    *)
(* row is removed or the item was one too many for a poll or backdated.    *)
EveryItemAnnounced ==
    \A t \in Threads, n \in Items :
        (\E r \in rows : r.id = t /\ n > r.mark /\ n \in feed[r.game])
            ~> \/ n \in ToSet(told[t]) \/ <<t, n>> \in skipped
               \/ \A r \in rows : r.id # t
===============================================================================
