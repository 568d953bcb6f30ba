------------------------------ MODULE HomeMap ------------------------------
(***************************************************************************)
(* The map of the home page (components/ListingsMap.tsx, the loader of     *)
(* components/MapLibreGL.tsx) and what the page around it keeps for it     *)
(* (routes/index.tsx): the listings, the area in the address bar, and the  *)
(* position the visitor asked to see.                                      *)
(*                                                                         *)
(* The library is imported, and the map loads, while the page goes on: it  *)
(* may be left, its listings may come and go (and the map with them), and  *)
(* areas are chosen through navigations that take effect later, among      *)
(* those of the header's links and of the browser's history.  A chunk that *)
(* a deployment has replaced makes the tab reload itself                   *)
(* (lib/stale-asset-recovery.ts), but not again and again.  Source data    *)
(* that the map is given is drawn by the time the visitor clicks.          *)
(***************************************************************************)
EXTENDS Naturals, FiniteSets

CONSTANTS
  Listing,
  Cell,        \* H3 cells
  Res,         \* getResolution
  CellAt,      \* the cell of a resolution a listing is in: cellToParent
  Zoom,        \* bound: the zoom levels there are
  Position,
  None,
  MaxMounts    \* bound: maps mounted

HOME_GROUPING    == 7
PUBLIC_DETAIL    == 8
MIN_AREA         == 3
MAX_PUBLIC_AREA  == 8
DEFAULT_MAP_ZOOM == 13

Clamped(r) == IF r < MIN_AREA THEN MIN_AREA ELSE IF r > MAX_PUBLIC_AREA THEN MAX_PUBLIC_AREA ELSE r

(* ln(4)/ln(7) = 0.7124 resolutions per zoom level, rounded; 13 gives 8.   *)
zoomToH3Resolution(z) == Clamped((7124 * z - 7612) \div 10000)

Resolutions == {zoomToH3Resolution(z) : z \in Zoom} \cup {HOME_GROUPING, PUBLIC_DETAIL}

NoGoal == "nowhere"

ASSUME MapConstants ==
  /\ Zoom \subseteq 2..22 /\ DEFAULT_MAP_ZOOM \in Zoom
  /\ Res \in [Cell -> Resolutions]
  /\ CellAt \in [Listing -> [Resolutions -> Cell]]
  /\ \A l \in Listing, r \in Resolutions : Res[CellAt[l][r]] = r
  /\ None \notin Cell \cup Position /\ NoGoal \notin Cell \cup {None}
  /\ MaxMounts \in Nat \ {0}

Mount == 1..MaxMounts

VARIABLES
  \* the page
  home,          \* the page is open
  listings,
  area,          \* selectedH3
  goal,          \* where the navigation under way leads
  userLocation,
  locating,
  \* stale asset recovery
  marker,        \* how long ago sessionStorage says the tab was reloaded
  reloading,     \* the tab is about to be reloaded
  \* its map
  mounts,        \* maps mounted so far
  mounted,       \* the last of them still is
  imports,       \* mounts whose import is under way
  live,          \* mounts whose map exists
  skeleton,
  layersReady,
  currentRes,
  grouped,       \* the listings the map was set up with
  circles,       \* the data of listing-groups
  region,
  highlight,
  framed,        \* where the map was last sent
  zoom,
  zooming,
  picked         \* history: the circle last chosen on this map, while no link
                 \* or history entry has been followed since

page == <<home, listings, area, goal, userLocation, locating>>
recovery == <<marker, reloading>>
drawing == <<layersReady, currentRes, grouped, circles, region, highlight>>
camera == <<framed, zoom, zooming>>
lifetime == <<mounts, mounted, imports, live, skeleton>>
vars == <<page, recovery, lifetime, drawing, camera, picked>>

Areas == Cell \cup {None}

TypeOK ==
  /\ home \in BOOLEAN /\ listings \subseteq Listing /\ area \in Areas
  /\ goal \in Areas \cup {NoGoal}
  /\ userLocation \in Position \cup {None} /\ locating \in BOOLEAN
  /\ marker \in {"never", "recent", "past"} /\ reloading \in BOOLEAN
  /\ mounts \in 0..MaxMounts /\ mounted = (home /\ listings # {})
  /\ imports \subseteq Mount /\ live \subseteq Mount
  /\ skeleton \in BOOLEAN /\ layersReady \in BOOLEAN /\ picked \in Areas
  /\ currentRes \in Resolutions /\ grouped \subseteq Listing /\ DOMAIN circles \subseteq Cell
  /\ region \in Areas /\ highlight \in Areas
  /\ framed \in Position \cup {None, "groups"} /\ zoom \in Zoom /\ zooming \in BOOLEAN
  /\ layersReady => mounts \in live
  /\ goal # NoGoal \/ locating => home

Init ==
  /\ home = FALSE /\ listings = {} /\ area = None /\ goal = NoGoal
  /\ userLocation = None /\ locating = FALSE
  /\ marker = "never" /\ reloading = FALSE
  /\ mounts = 0 /\ mounted = FALSE /\ imports = {} /\ live = {} /\ skeleton = FALSE
  /\ layersReady = FALSE /\ currentRes = HOME_GROUPING /\ grouped = {} /\ circles = << >>
  /\ region = None /\ highlight = None
  /\ framed = None /\ zoom = DEFAULT_MAP_ZOOM /\ zooming = FALSE /\ picked = None

(* The map of this mount.                                                  *)
HasMap == mounted /\ mounts \in live

groupByH3(ls, r) ==
  [c \in {CellAt[l][r] : l \in ls} |-> {l \in ls : CellAt[l][r] = c}]

(* A listing's index is of resolution 8, an area's of 8 at most.           *)
listingMatchesArea(l, c) == CellAt[l][Res[c]] = c

visibleListings(ls, c) == {l \in ls : listingMatchesArea(l, c)}

-----------------------------------------------------------------------------
(* The page mounts and unmounts its map.                                   *)

FreshMap ==
  /\ layersReady' = FALSE /\ currentRes' = HOME_GROUPING /\ grouped' = {} /\ circles' = << >>
  /\ region' = None /\ highlight' = None /\ picked' = None
  /\ framed' = None /\ zoom' = DEFAULT_MAP_ZOOM /\ zooming' = FALSE

(* Without WebGL the map is reported unavailable at once.                  *)
MountMap ==
  /\ mounts < MaxMounts /\ mounts' = mounts + 1 /\ mounted' = TRUE
  /\ \/ imports' = imports \cup {mounts'} /\ skeleton' = TRUE
     \/ imports' = imports /\ skeleton' = FALSE
  /\ live' = live
  /\ FreshMap

UnmountMap ==
  /\ mounted' = FALSE /\ live' = live \ {mounts} /\ skeleton' = FALSE
  /\ UNCHANGED <<mounts, imports>>
  /\ FreshMap

NoMap == mounted' = FALSE /\ UNCHANGED <<mounts, imports, live, skeleton, drawing, camera, picked>>

Enter ==
  /\ ~home /\ home' = TRUE
  /\ listings' \in SUBSET Listing /\ area' \in Areas
  /\ goal' = NoGoal /\ userLocation' = None /\ locating' = FALSE
  /\ IF listings' = {} THEN NoMap ELSE MountMap
  /\ UNCHANGED recovery

Leave ==
  /\ home /\ home' = FALSE
  /\ listings' = {} /\ area' = None /\ goal' = NoGoal
  /\ userLocation' = None /\ locating' = FALSE
  /\ IF mounted THEN UnmountMap ELSE NoMap
  /\ UNCHANGED recovery

(* The loader has run again.  ListingsMap's effect on its listings was to  *)
(* redraw the map, but read none of them before the map was there: it does *)
(* not run again.                                                          *)
Reloaded ==
  /\ home /\ listings' \in SUBSET Listing
  /\ CASE mounted /\ listings' = {}  -> UnmountMap
       [] ~mounted /\ listings' # {} -> MountMap
       [] OTHER                      -> UNCHANGED <<lifetime, drawing, camera, picked>>
  /\ UNCHANGED <<home, area, goal, userLocation, locating, recovery>>

-----------------------------------------------------------------------------
(* MapLibreGL and the map's own events.                                    *)

planListingsMapCamera(hasGroups, userCenter) ==
  IF userCenter # None THEN userCenter ELSE IF hasGroups THEN "groups" ELSE None

setupMap(m) ==
  /\ live' = live \cup {m} /\ grouped' = listings
  /\ framed' = planListingsMapCamera(listings # {}, userLocation)
  /\ zoom' \in IF framed' = "groups" THEN Zoom ELSE {DEFAULT_MAP_ZOOM}
  /\ UNCHANGED <<zooming, layersReady, currentRes, circles, region, highlight>>

(* Faulty variant: whether the component is still mounted is not asked.    *)
ImportedUnasked(m) ==
  /\ m \in imports /\ imports' = imports \ {m}
  /\ setupMap(m)
  /\ UNCHANGED <<page, recovery, mounts, mounted, skeleton, picked>>

Imported(m) ==
  /\ m \in imports /\ imports' = imports \ {m}
  /\ IF mounted /\ m = mounts THEN setupMap(m) ELSE UNCHANGED <<live, camera, drawing>>
  /\ UNCHANGED <<page, recovery, mounts, mounted, skeleton, picked>>

(* `vite:preloadError': the tab is reloaded unless it just was.            *)
preloadErrorHandler ==
  IF marker = "recent" THEN UNCHANGED recovery ELSE marker' = "recent" /\ reloading' = TRUE

(* Faulty variant: a failed import leaves the skeleton.                    *)
ImportFailsSilently(m) ==
  /\ m \in imports /\ imports' = imports \ {m}
  /\ preloadErrorHandler
  /\ UNCHANGED <<page, mounts, mounted, live, skeleton, drawing, camera, picked>>

(* A chunk cannot be loaded, or, when it is the mount's, the map not made. *)
ImportFails(m) ==
  /\ m \in imports /\ imports' = imports \ {m}
  /\ preloadErrorHandler \/ (mounted /\ m = mounts /\ UNCHANGED recovery)
  /\ skeleton' = IF m = mounts THEN FALSE ELSE skeleton
  /\ UNCHANGED <<page, mounts, mounted, live, drawing, camera, picked>>

(* RELOAD_LOOP_WINDOW_MS is over.                                          *)
WindowLapses ==
  /\ marker = "recent" /\ marker' = "past"
  /\ UNCHANGED <<page, reloading, lifetime, drawing, camera, picked>>

FreshTab ==
  /\ home' = FALSE /\ listings' = {} /\ area' = None /\ goal' = NoGoal
  /\ userLocation' = None /\ locating' = FALSE
  /\ mounts' = 0 /\ mounted' = FALSE /\ imports' = {} /\ live' = {} /\ skeleton' = FALSE
  /\ FreshMap

(* Faulty variant: the marker does not survive the reload.                 *)
ReloadForgetting ==
  /\ reloading /\ reloading' = FALSE
  /\ marker' = "never"
  /\ FreshTab

(* Nothing of the tab is left but sessionStorage.                          *)
Reload ==
  /\ reloading /\ reloading' = FALSE
  /\ UNCHANGED marker
  /\ FreshTab

addGroupLayers(ls, r) == currentRes' = r /\ circles' = groupByH3(ls, r)

updateGroupSource(r) == currentRes' = r /\ circles' = groupByH3(listings, r)

(* Empty layers, and at once the region and the circle that are selected.  *)
addRegionLayers == region' = area /\ highlight' = area

(* `load': the layers, of the listings the map was set up with, or of the  *)
(* present ones when the zoom asks for another resolution.                 *)
MapLoads ==
  /\ HasMap /\ ~layersReady
  /\ layersReady' = TRUE
  /\ IF zoomToH3Resolution(zoom) = currentRes THEN addGroupLayers(grouped, currentRes)
     ELSE updateGroupSource(zoomToH3Resolution(zoom))
  /\ addRegionLayers
  /\ skeleton' = FALSE
  /\ UNCHANGED <<page, recovery, mounts, mounted, imports, live, grouped, camera, picked>>

(* `error': of the style or a tile, before or after the map has loaded.    *)
MapErrors ==
  /\ HasMap /\ skeleton /\ skeleton' = FALSE
  /\ UNCHANGED <<page, recovery, mounts, mounted, imports, live, drawing, camera, picked>>

Zooms ==
  /\ HasMap /\ zoom' \in Zoom \ {zoom} /\ zooming' = TRUE
  /\ UNCHANGED <<page, recovery, lifetime, drawing, framed, picked>>

(* `zoomend'.                                                              *)
ZoomEnds ==
  /\ HasMap /\ zooming /\ zooming' = FALSE
  /\ IF layersReady /\ zoomToH3Resolution(zoom) # currentRes
     THEN updateGroupSource(zoomToH3Resolution(zoom)) /\ goal' = None
     ELSE UNCHANGED <<currentRes, circles, goal>>
  /\ UNCHANGED <<home, listings, area, userLocation, locating, recovery, lifetime, layersReady, grouped,
                 region, highlight, framed, zoom, picked>>

-----------------------------------------------------------------------------
(* The visitor.                                                            *)

ClickCircle(c) ==
  /\ layersReady /\ c \in DOMAIN circles
  /\ goal' = (IF area = c THEN None ELSE c) /\ picked' = goal'
  /\ UNCHANGED <<home, listings, area, userLocation, locating, recovery, lifetime, drawing, camera>>

ShowAll ==
  /\ mounted /\ area # None
  /\ goal' = None
  /\ UNCHANGED <<home, listings, area, userLocation, locating, recovery, lifetime, drawing, camera, picked>>

(* A navigation that another part of the page starts: the map is not told, *)
(* and no longer knows where the area will be from.                        *)
LeadsAwayTo(g) ==
  /\ home /\ goal' = g /\ picked' = None
  /\ UNCHANGED <<home, listings, area, userLocation, locating, recovery, lifetime, drawing, camera>>

(* The header's link, or signing out: the page stays, its area goes.       *)
FollowLogo == LeadsAwayTo(None)

(* Back or Forward to another entry of this page, of whatever area.        *)
Traverse == \E c \in Areas : LeadsAwayTo(c)

updateHighlight == highlight' = IF layersReady THEN area' ELSE highlight

updateRegion == region' = IF layersReady THEN area' ELSE region

(* The navigation under way arrives; the effect on selectedH3.             *)
Navigated ==
  /\ goal # NoGoal /\ goal' = NoGoal
  /\ area' = goal
  /\ updateHighlight /\ updateRegion
  /\ UNCHANGED <<home, listings, userLocation, locating, recovery, lifetime, layersReady, currentRes,
                 grouped, circles, camera, picked>>

centerOnMyLocation ==
  /\ home /\ listings # {} /\ ~locating /\ locating' = TRUE
  /\ UNCHANGED <<home, listings, area, goal, userLocation, recovery, lifetime, drawing, camera, picked>>

(* The browser's answer: a position, to which the map flies if it is there,*)
(* or none.                                                                *)
Located ==
  /\ locating /\ locating' = FALSE
  /\ \/ UNCHANGED <<userLocation, framed>>
     \/ /\ userLocation' \in Position
        /\ framed' = IF HasMap THEN userLocation' ELSE framed
  /\ UNCHANGED <<home, listings, area, goal, recovery, lifetime, drawing, zoom, zooming, picked>>

Next ==
  \/ Enter \/ Leave \/ Reloaded
  \/ \E m \in Mount : Imported(m) \/ ImportFails(m)
  \/ WindowLapses \/ Reload
  \/ MapLoads \/ MapErrors \/ Zooms \/ ZoomEnds
  \/ \E c \in Cell : ClickCircle(c)
  \/ ShowAll \/ FollowLogo \/ Traverse \/ Navigated \/ centerOnMyLocation \/ Located

(* Imports settle, and a map loads or reports an error.                    *)
Fairness ==
  /\ \A m \in Mount : WF_vars(Imported(m) \/ ImportFails(m))
  /\ WF_vars(MapLoads \/ MapErrors)
  /\ WF_vars(Reload)

Spec == Init /\ [][Next]_vars /\ Fairness

-----------------------------------------------------------------------------
(* A map exists only while its component is mounted: one that is ready     *)
(* after the visitor has left is not made.                                 *)
NoMapLeftBehind == live \subseteq IF mounted THEN {mounts} ELSE {}

(* The circles are of the resolution the zoom asks for, also when the      *)
(* visitor zooms before the layers are there.                              *)
GroupsFitZoom ==
  layersReady /\ ~zooming =>
    /\ currentRes = zoomToH3Resolution(zoom)
    /\ \A c \in DOMAIN circles : Res[c] = currentRes

(* The outlined region and the highlighted circle are those of the area in *)
(* the address bar, whichever of map and area came first.                  *)
SelectionIsOutlined == layersReady => region = area /\ highlight = area

(* An area chosen on the map, with no link or history entry followed since,*)
(* has the resolution of the circles, unless the navigation that clears it *)
(* is under way: the listener of zoomend leaves no cell of old circles.    *)
PickedAreaFitsCircles ==
  area # None /\ area = picked /\ layersReady /\ goal = NoGoal => Res[area] = currentRes

(* Every circle counts the listings that choosing it will show, once       *)
(* circles and cards are of the same listings.                             *)
CircleCountsItsCards ==
  \A c \in DOMAIN circles :
    UNION {circles[d] : d \in DOMAIN circles} = listings => circles[c] = visibleListings(listings, c)

(* A position the visitor asked for is where the map was sent last, also   *)
(* when it came before the map.                                            *)
MapIsWhereAsked == HasMap /\ userLocation # None => framed = userLocation

(* `Loading map...' does not stay for ever.                                *)
SkeletonEnds == skeleton ~> ~skeleton

(* A chunk that stays missing does not reload the tab for ever: it is      *)
(* reloaded again only after the window of the reload before.              *)
ReloadsStop == []<>reloading => []<>(marker = "past")

(* The map shows what the page and the visitor asked for, in whatever order*)
(* library, layers, listings, zooms and navigations arrived.               *)
MapInv ==
  /\ TypeOK
  /\ NoMapLeftBehind
  /\ GroupsFitZoom
  /\ SelectionIsOutlined
  /\ PickedAreaFitsCircles
  /\ CircleCountsItsCards
  /\ MapIsWhereAsked
=============================================================================
