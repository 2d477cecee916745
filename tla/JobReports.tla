------------------------------ MODULE JobReports ------------------------------
(***************************************************************************)
(* What the two sources make of a posting: parseJobPublished and its       *)
(* helpers in internal/monitor/websocket/monitor.go, and the event that    *)
(* emitItems of internal/monitor/rss/monitor.go builds.  The job they      *)
(* report is a record as JobKey takes it; an id of spaces alone is not     *)
(* among them.                                                             *)
(***************************************************************************)
LOCAL INSTANCE Integers
LOCAL INSTANCE Sequences

CONSTANTS Blank, NoUrl, \* see JobKey
          Absent        \* a part of a frame that is not there

\* A frame that is no job.
NoJob == Absent

Language(src, tgt) == IF src = Blank \/ tgt = Blank THEN Blank ELSE src \o " -> " \o tgt

Facets(title, language, reward) ==
    [title |-> title, language |-> language, currency |-> Blank, deadline |-> Blank,
     reward |-> reward, unitCount |-> 0]

\* Messages come with one of two names for the reward.
Reward(body) == IF body.reward = 0 THEN body.rewards ELSE body.reward

PublishedJob(data) ==
    IF data.id = Blank THEN NoJob
    ELSE LET codes    == Language(data.lc_src, data.lc_tgt)
             language == IF codes = Blank THEN Language(data.source_lang, data.target_lang)
                                          ELSE codes
         IN [id |-> data.id, url |-> data.url, facets |-> Facets(data.title, language, Reward(data))]

\* An available_collection has neither a title nor a url.
CollectionJob(body) ==
    IF body = Absent THEN NoJob
    ELSE IF body.id = Blank THEN NoJob
    ELSE [id |-> body.id, url |-> NoUrl,
          facets |-> Facets(Blank, Language(body.lc_src, body.lc_tgt), Reward(body))]

FrameJob(frame) ==
    IF frame.event = "job_published" THEN PublishedJob(frame.data)
    ELSE IF frame.type # "available_collection" THEN NoJob
    ELSE CollectionJob(IF frame.collection = Absent THEN frame.data ELSE frame.collection)

\* An item of the feed always makes an event; its parts may all be blank.
FeedJob(item) == [id |-> item.guid, url |-> item.link,
                  facets |-> Facets(item.title, Blank, item.reward)]
===============================================================================
