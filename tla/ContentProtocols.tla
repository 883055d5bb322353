--------------------------- MODULE ContentProtocols ---------------------------
(***************************************************************************)
(* Stored content and statistics of players.                               *)
(* The messages of every method, with their fields in the order of the     *)
(* wire.  A method is found under its id, its position in the protocol.    *)
(***************************************************************************)
EXTENDS Schemas

ContentProperty == Struct(<<F("id", U32), F("value", Variant)>>)

UserContentKey == Struct(<<F("typeId", U32), F("contentId", U64)>>)

UserContent ==
  Struct(<<F("key", UserContentKey), F("pid", U32), F("properties", List(ContentProperty))>>)

UserStorageQuery ==
  Struct(<<F("typeId", U32), F("queryId", U32), F("resultRange", ResultRange),
           F("parameters", List(ContentProperty))>>)

UserSlotCount ==
  Struct(<<F("pid", U32), F("typeId", U32), F("usedSlots", U32), F("totalSlots", U32)>>)

UserContentURL == Struct(<<F("protocol", String), F("host", String), F("path", String)>>)

WeightedTag == Struct(<<F("id", U32), F("numberOfOccurences", U32)>>)

------------------------------------------------------------------------------

SearchContents ==
  Method("searchContents",
         Struct(<<F("query", UserStorageQuery)>>),
         Struct(<<F("searchResults", List(UserContent))>>))

SearchContentsWithTotal ==
  Method("searchContentsWithTotal",
         Struct(<<F("query", UserStorageQuery)>>),
         Struct(<<F("searchResults", List(UserContent)), F("totalResults", U32)>>))

DeleteContent ==
  Method("deleteContent",
         Struct(<<F("contentKey", UserContentKey)>>),
         Struct(<< >>))

SaveMetaData ==
  Method("saveMetaData",
         Struct(<<F("properties", List(ContentProperty))>>),
         Struct(<<F("contentKey", UserContentKey)>>))

SaveContentDb ==
  Method("saveContentDb",
         Struct(<<F("properties", List(ContentProperty)), F("data", Buffer)>>),
         Struct(<<F("contentKey", UserContentKey)>>))

SaveContentAndGetUploadInfo ==
  Method("saveContentAndGetUploadInfo",
         Struct(<<F("properties", List(ContentProperty)), F("size", U32),
                  F("contentKey", UserContentKey)>>),
         Struct(<<F("uploadInfo", UserContentURL), F("pendingId", U64),
                  F("headers", List(String))>>))

UploadEnd ==
  Method("uploadEnd",
         Struct(<<F("pendingId", U64), F("result", Bool)>>),
         Struct(<<F("contentKey", UserContentKey)>>))

GetContentDb ==
  Method("getContentDb",
         Struct(<<F("contentKey", UserContentKey)>>),
         Struct(<<F("data", Buffer)>>))

GetContentUrl ==
  Method("getContentUrl",
         Struct(<<F("contentKey", UserContentKey)>>),
         Struct(<<F("downloadInfo", UserContentURL)>>))

GetSlotCount ==
  Method("getSlotCount",
         Struct(<<F("typeId", U32)>>),
         Struct(<<F("slotCount", UserSlotCount)>>))

GetMetaData ==
  Method("getMetaData",
         Struct(<<F("contentKey", UserContentKey)>>),
         Struct(<<F("content", UserContent)>>))

Like ==
  Method("like",
         Struct(<<F("contentKey", UserContentKey)>>),
         Struct(<< >>))

Unlike ==
  Method("unlike",
         Struct(<<F("contentKey", UserContentKey)>>),
         Struct(<< >>))

IsLiked ==
  Method("isLiked",
         Struct(<<F("contentKey", UserContentKey)>>),
         Struct(<<F("liked", Bool)>>))

GetFavourites ==
  Method("getFavourites",
         Struct(<<F("contentTypes", List(U32))>>),
         Struct(<<F("favourites", List(UserContent))>>))

MakeFavourite ==
  Method("makeFavourite",
         Struct(<<F("contentKey", UserContentKey)>>),
         Struct(<< >>))

RemoveFromFavourites ==
  Method("removeFromFavourites",
         Struct(<<F("contentKey", UserContentKey)>>),
         Struct(<< >>))

ReportInappropriate ==
  Method("reportInappropriate",
         Struct(<<F("contentKey", UserContentKey), F("reason", String)>>),
         Struct(<< >>))

IncrementPlayCount ==
  Method("incrementPlayCount",
         Struct(<<F("contentKey", UserContentKey)>>),
         Struct(<< >>))

UpdateCustomStat ==
  Method("updateCustomStat",
         Struct(<<F("contentKey", UserContentKey), F("statId", U16), F("incValue", I64)>>),
         Struct(<< >>))

GetOwnContents ==
  Method("getOwnContents",
         Struct(<<F("typeId", U32)>>),
         Struct(<<F("results", List(UserContent))>>))

GetMostPopularTags ==
  Method("getMostPopularTags",
         Struct(<<F("contentKey", UserContentKey)>>),
         Struct(<<F("tags", List(WeightedTag)), F("totalNumberOfTaggings", U32)>>))

GetTags ==
  Method("getTags",
         Struct(<<F("contentKey", UserContentKey)>>),
         Struct(<<F("tagIds", List(U32))>>))

TagContent ==
  Method("tagContent",
         Struct(<<F("contentKey", UserContentKey), F("newTagIds", List(U32))>>),
         Struct(<< >>))

SearchContentsByPlayers ==
  Method("searchContentsByPlayers",
         Struct(<<F("pids", List(U32)), F("query", UserStorageQuery)>>),
         Struct(<<F("searchResults", List(UserContent))>>))

SearchContentsByPlayersWithTotal ==
  Method("searchContentsByPlayersWithTotal",
         Struct(<<F("pids", List(U32)), F("query", UserStorageQuery)>>),
         Struct(<<F("searchResults", List(UserContent)), F("totalResults", U32)>>))

UserStorageProtocol ==
  Protocol(53, <<SearchContents, SearchContentsWithTotal, DeleteContent, SaveMetaData,
                 SaveContentDb, SaveContentAndGetUploadInfo, UploadEnd, GetContentDb,
                 GetContentUrl, GetSlotCount, GetMetaData, Like, Unlike, IsLiked,
                 GetFavourites, MakeFavourite, RemoveFromFavourites, ReportInappropriate,
                 IncrementPlayCount, UpdateCustomStat, GetOwnContents, GetMostPopularTags,
                 GetTags, TagContent, SearchContentsByPlayers,
                 SearchContentsByPlayersWithTotal>>)

PlayerStatUpdate ==
  Struct(<<F("boardId", U32), F("contextIds", List(U32)), F("stats", List(PropertyVariant))>>)

PlayerStatSortCriteria == Struct(<<F("sortStatId", U32), F("sortOrder", U32)>>)

StatboardQuery ==
  Struct(<<F("boardId", U32), F("contextIds", List(U32)), F("resetFrequency", U32),
           F("statIds", List(U32)), F("sortCriterias", List(PlayerStatSortCriteria))>>)

LeaderboardQuery ==
  Struct(<<F("boardId", U32), F("contextId", U32), F("resetFrequency", U32),
           F("statIds", List(U32))>>)

LeaderboardQuery2 ==
  Struct(<<F("boardId", U32), F("contextId", U32), F("resetFrequency", U32),
           F("statIds", List(U32)), F("estimatedPids", List(U32))>>)

PlayerStatSet ==
  Struct(<<F("playerPid", U32), F("playerName", String), F("submittedTime", DateTime),
           F("stats", List(PropertyVariant))>>)

StatboardResult ==
  Struct(<<F("boardId", U32), F("contextId", U32), F("resetFrequency", U32),
           F("playerStatSets", List(PlayerStatSet)),
           F("defaultStatValues", List(PropertyVariant))>>)

PlayerRank ==
  Struct(<<F("playerStatSet", PlayerStatSet), F("rankStatus", U32), F("rank", U32),
           F("score", Variant)>>)

LeaderboardResult ==
  Struct(<<F("boardId", U32), F("contextId", U32), F("resetFrequency", U32),
           F("leaderboardTotalPlayerCount", U32), F("playerRanks", List(PlayerRank))>>)

DateRange == Struct(<<F("startingDatetime", DateTime), F("endingDatetime", DateTime)>>)

StatboardHistoryQuery ==
  Struct(<<F("playerPids", List(U32)), F("boardId", U32), F("contextIds", List(U32)),
           F("statIds", List(U32)), F("resultRange", ResultRange),
           F("playerStats", List(PropertyVariant)), F("dateRanges", List(DateRange)),
           F("sortCriterias", List(PlayerStatSortCriteria))>>)

StatboardHistoryAggregatedQuery ==
  Struct(<<F("playerPids", List(U32)), F("boardId", U32), F("contextIds", List(U32)),
           F("statIds", List(U32)), F("resultRange", ResultRange),
           F("playerStats", List(PropertyVariant)), F("dateRanges", List(DateRange)),
           F("sortCriterias", List(PlayerStatSortCriteria)), F("filterOption", U32)>>)

LeaderboardHistoryQuery ==
  Struct(<<F("playerPids", List(U32)), F("boardId", U32), F("contextId", U32),
           F("resultRange", ResultRange), F("dateRanges", List(DateRange)),
           F("filterOption", U32)>>)

PopulationStatQuery ==
  Struct(<<F("boardId", U32), F("contextId", U32), F("statIds", List(U32))>>)

PopulationStatResult ==
  Struct(<<F("boardId", U32), F("contextId", U32), F("statId", U32), F("sum", F64),
           F("average", F64), F("standardDeviation", F64)>>)

------------------------------------------------------------------------------

WriteStats ==
  Method("writeStats",
         Struct(<<F("playerStatUpdates", List(PlayerStatUpdate))>>),
         Struct(<< >>))

ReadStatsByPlayers ==
  Method("readStatsByPlayers",
         Struct(<<F("playerPids", List(U32)), F("queries", List(StatboardQuery))>>),
         Struct(<<F("results", List(StatboardResult))>>))

ReadLeaderboardsNearPlayer ==
  Method("readLeaderboardsNearPlayer",
         Struct(<<F("playerPid", U32), F("count", U32),
                  F("queries", List(LeaderboardQuery))>>),
         Struct(<<F("results", List(LeaderboardResult))>>))

ReadLeaderboardsByRank ==
  Method("readLeaderboardsByRank",
         Struct(<<F("startingRank", U32), F("count", U32),
                  F("queries", List(LeaderboardQuery))>>),
         Struct(<<F("results", List(LeaderboardResult))>>))

ReadLeaderboardsByPlayers ==
  Method("readLeaderboardsByPlayers",
         Struct(<<F("playerPids", List(U32)), F("queries", List(LeaderboardQuery))>>),
         Struct(<<F("results", List(LeaderboardResult))>>))

ReadStatboardHistory ==
  Method("readStatboardHistory",
         Struct(<<F("queries", List(StatboardHistoryQuery))>>),
         Struct(<<F("results", List(StatboardResult))>>))

ReadLeaderboardHistory ==
  Method("readLeaderboardHistory",
         Struct(<<F("queries", List(LeaderboardHistoryQuery))>>),
         Struct(<<F("results", List(LeaderboardResult))>>))

ReadStatboardHistoryAggregated ==
  Method("readStatboardHistoryAggregated",
         Struct(<<F("queries", List(StatboardHistoryAggregatedQuery))>>),
         Struct(<<F("results", List(StatboardResult))>>))

GetStatboardNextPurgeDate ==
  Method("getStatboardNextPurgeDate",
         Struct(<<F("boardId", U32), F("resetFrequency", U32)>>),
         Struct(<<F("purgeDate", DateTime)>>))

ReadLeaderboardsNearPlayer2 ==
  Method("readLeaderboardsNearPlayer2",
         Struct(<<F("playerPid", U32), F("count", U32),
                  F("queries", List(LeaderboardQuery2))>>),
         Struct(<<F("results", List(LeaderboardResult))>>))

ReadLeaderboardsByRank2 ==
  Method("readLeaderboardsByRank2",
         Struct(<<F("startingRank", U32), F("count", U32),
                  F("queries", List(LeaderboardQuery2))>>),
         Struct(<<F("results", List(LeaderboardResult))>>))

ReadLeaderboardsByPlayers2 ==
  Method("readLeaderboardsByPlayers2",
         Struct(<<F("queries", List(LeaderboardQuery2))>>),
         Struct(<<F("results", List(LeaderboardResult))>>))

ReadPopulationStats ==
  Method("readPopulationStats",
         Struct(<<F("queries", List(PopulationStatQuery))>>),
         Struct(<<F("results", List(PopulationStatResult))>>))

PlayerStatsProtocol ==
  Protocol(55, <<WriteStats, ReadStatsByPlayers, ReadLeaderboardsNearPlayer,
                 ReadLeaderboardsByRank, ReadLeaderboardsByPlayers, ReadStatboardHistory,
                 ReadLeaderboardHistory, ReadStatboardHistoryAggregated,
                 GetStatboardNextPurgeDate, ReadLeaderboardsNearPlayer2,
                 ReadLeaderboardsByRank2, ReadLeaderboardsByPlayers2, ReadPopulationStats>>)
==============================================================================
