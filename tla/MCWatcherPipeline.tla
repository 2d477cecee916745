------------------------- MODULE MCWatcherPipeline -------------------------
(* Two monitors, one of which may ignore its context and may close the     *)
(* channel; more dispatches than slots; jobs as the two sources put them.  *)
EXTENDS WatcherPipeline

CONSTANT Absent

Sources == INSTANCE JobReports

Url(path, query) == [host |-> "gengo.com", path |-> path, query |-> query]

Body(id, url, title) == [id |-> id, url |-> url, title |-> title, reward |-> 0, rewards |-> 6,
                         lc_src |-> "ja", lc_tgt |-> "", source_lang |-> "ja", target_lang |-> "en"]

Published(data) == Sources!FrameJob([event |-> "job_published", type |-> "", data |-> data])

Collection(data, body) == Sources!FrameJob([event |-> "", type |-> "available_collection",
                                            data |-> data, collection |-> body])

Item(guid, link, title) == Sources!FeedJob([guid |-> guid, link |-> link, title |-> title,
                                            reward |-> 0])

\* The first four are about one posting, moved about one item without a guid.
AllJobs == [
    published  |-> Published(Body("42", Url(<<"jobs", "42">>, {}), "urgent")),
    collection |-> Collection(Body("42", NoUrl, ""), Absent),
    guid       |-> Item("42", Url(<<"jobs", "42">>, {}), "urgent"),
    noGuid     |-> Item("", Url(<<"jobs", "42">>, {}), "urgent"),
    moved      |-> Item("", Url(<<"t", "jobs", "old", "..", "7">>, {"from=rss"}), ""),
    query      |-> Item("", Url(<<"jobs">>, {"job_id=8"}), ""),
    titled     |-> Item("", NoUrl, "urgent"),
    blank      |-> Item("", NoUrl, "") ]

AllPostings == [published |-> 42, collection |-> 42, guid |-> 42, noGuid |-> 42, moved |-> 7,
                query |-> 8, titled |-> 9, blank |-> 0]
=============================================================================
