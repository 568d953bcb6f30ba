--------------------------- MODULE HomeMapProofs ---------------------------
(***************************************************************************)
(* Proofs about HomeMap.                                                   *)
(*                                                                         *)
(* MapInv is not inductive.  That an area chosen on the map fits the       *)
(* circles rests on where the navigation that leads there stands; that a   *)
(* circle counts its cards, on what each circle holds whatever the page's  *)
(* listings are by now; and a map that is imported only once is made while *)
(* no layers are drawn.                                                    *)
(***************************************************************************)
EXTENDS HomeMap, TLAPS

(* No import is under way for the map that exists.                         *)
ImportedOnce == imports \cap live = {}

(* The circles of a drawn map are of its resolution.                       *)
OneResolution == layersReady => \A c \in DOMAIN circles : Res[c] = currentRes

(* A circle holds the drawn listings that are in its cell.                 *)
Drawn == UNION {circles[d] : d \in DOMAIN circles}
CirclesHoldTheirs == \A c \in DOMAIN circles : circles[c] = {l \in Drawn : listingMatchesArea(l, c)}

(* The choice made on this map, while the navigation is under way and      *)
(* after it: a zoom to other circles sends the visitor elsewhere, and a    *)
(* navigation from elsewhere ends the claim.                               *)
ChoiceFits ==
  /\ ~layersReady => picked = None
  /\ layersReady /\ picked # None /\ goal = NoGoal /\ area = picked => Res[area] = currentRes
  /\ layersReady /\ picked # None /\ goal = picked => Res[goal] = currentRes

IInv ==
  /\ TypeOK /\ NoMapLeftBehind /\ ImportedOnce
  /\ OneResolution /\ CirclesHoldTheirs /\ GroupsFitZoom
  /\ SelectionIsOutlined /\ ChoiceFits /\ MapIsWhereAsked

-----------------------------------------------------------------------------
(* What groupByH3 makes of any listings: circles of one resolution, that   *)
(* hold all the listings and each its own.                                 *)
LEMMA GroupsAreSound ==
  ASSUME NEW ls \in SUBSET Listing, NEW r \in Resolutions
  PROVE  LET gs == groupByH3(ls, r)
         IN  /\ DOMAIN gs \subseteq Cell
             /\ \A c \in DOMAIN gs : Res[c] = r
             /\ UNION {gs[d] : d \in DOMAIN gs} = ls
             /\ \A c \in DOMAIN gs : gs[c] = {l \in ls : listingMatchesArea(l, c)}
  <1> DEFINE cells == {CellAt[l][r] : l \in ls}
             gs == groupByH3(ls, r)
  <1>1. \A l \in ls : CellAt[l][r] \in Cell /\ Res[CellAt[l][r]] = r BY MapConstants
  <1>2. DOMAIN gs = cells /\ \A c \in cells : gs[c] = {l \in ls : CellAt[l][r] = c}
    BY DEF groupByH3
  <1>3. cells \subseteq Cell /\ \A c \in cells : Res[c] = r BY <1>1
  <1> HIDE DEF gs
  <1>4. UNION {gs[d] : d \in DOMAIN gs} = ls
    <2>1. \A l \in ls : CellAt[l][r] \in cells /\ l \in gs[CellAt[l][r]] BY <1>2
    <2> QED BY <1>2, <2>1
  <1> QED BY <1>2, <1>3, <1>4 DEF gs, listingMatchesArea

(* The circles made anew are sound, of whatever listings they are.         *)
LEMMA NewCircles ==
  ASSUME NEW ls \in SUBSET Listing, NEW r \in Resolutions,
         currentRes' = r, circles' = groupByH3(ls, r)
  PROVE  /\ DOMAIN circles' \subseteq Cell /\ OneResolution' /\ CirclesHoldTheirs'
         /\ \A c \in DOMAIN circles' : Res[c] = currentRes'
  <1> DEFINE gs == groupByH3(ls, r)
  <1>1. /\ DOMAIN gs \subseteq Cell
        /\ \A c \in DOMAIN gs : Res[c] = r
        /\ UNION {gs[d] : d \in DOMAIN gs} = ls
        /\ \A c \in DOMAIN gs : gs[c] = {l \in ls : listingMatchesArea(l, c)}
    BY GroupsAreSound
  <1>2. circles' = gs OBVIOUS
  <1> HIDE DEF gs
  <1>3. Drawn' = ls BY <1>1, <1>2 DEF Drawn
  <1> QED BY <1>1, <1>2, <1>3 DEF OneResolution, CirclesHoldTheirs, listingMatchesArea

LEMMA ResolutionsOfZooms ==
  /\ HOME_GROUPING \in Resolutions
  /\ \A z \in Zoom : zoomToH3Resolution(z) \in Resolutions
  BY DEF Resolutions

(* A map of which nothing is drawn yet.                                    *)
LEMMA FreshMapIsEmpty ==
  ASSUME FreshMap
  PROVE  /\ layersReady' = FALSE /\ currentRes' \in Resolutions /\ grouped' = {}
         /\ DOMAIN circles' = {} /\ region' = None /\ highlight' = None /\ picked' = None
         /\ framed' = None /\ zoom' \in Zoom /\ zooming' = FALSE
  BY ResolutionsOfZooms, MapConstants DEF FreshMap

LEMMA InitInv == Init => IInv
  <1> SUFFICES ASSUME Init PROVE IInv OBVIOUS
  <1>1. DOMAIN circles = {}
    <2>1. circles = << >> BY DEF Init
    <2> QED BY <2>1
  <1>2. TypeOK
    <2>1. mounts \in 0..MaxMounts
      <3>1. mounts = 0 /\ MaxMounts \in Nat BY MapConstants DEF Init
      <3> QED BY <3>1
    <2>3. mounted = (home /\ listings # {})
      BY DEF Init
    <2>2. currentRes \in Resolutions /\ zoom \in Zoom
      BY ResolutionsOfZooms, MapConstants DEF Init
    <2> QED BY <1>1, <2>1, <2>2, <2>3 DEF Init, TypeOK, Areas
  <1> QED
    BY <1>1, <1>2 DEF Init, IInv, NoMapLeftBehind, ImportedOnce, OneResolution,
       CirclesHoldTheirs, GroupsFitZoom, SelectionIsOutlined, ChoiceFits, MapIsWhereAsked, HasMap

(* The map is gone, or another takes its place: nothing is drawn.          *)
LEMMA FreshInv ==
  ASSUME IInv, FreshMap, TypeOK',
         live' = {} \/ (mounted' /\ live' = {mounts'}), imports' \cap live' = {},
         mounts' \notin live'
  PROVE  IInv'
  BY FreshMapIsEmpty DEF IInv, NoMapLeftBehind, ImportedOnce, OneResolution,
     CirclesHoldTheirs, GroupsFitZoom, SelectionIsOutlined, ChoiceFits, MapIsWhereAsked, HasMap

LEMMA NothingDrawnUnmounted == IInv /\ ~mounted => live = {} /\ ~layersReady
  BY DEF IInv, NoMapLeftBehind, TypeOK

LEMMA MountMapInv ==
  ASSUME IInv, ~mounted, MountMap, home' = TRUE, listings' \in SUBSET Listing, listings' # {},
         area' \in Areas, goal' \in Areas \cup {NoGoal}, UNCHANGED recovery,
         userLocation' \in Position \cup {None}, locating' \in BOOLEAN
  PROVE  IInv'
  <1>1. live = {} BY NothingDrawnUnmounted
  <1>2. mounts' \in Mount /\ live' = {}
    BY <1>1, MapConstants DEF MountMap, IInv, TypeOK, Mount
  <1>3. mounts' \in 0..MaxMounts
    <2>1. mounts' \in 1..MaxMounts /\ MaxMounts \in Nat BY <1>2, MapConstants DEF Mount
    <2> QED BY <2>1
  <1>4. mounted' = TRUE /\ mounted' = (home' /\ listings' # {}) BY DEF MountMap
  <1>5. imports' \subseteq Mount /\ skeleton' \in BOOLEAN BY <1>2 DEF MountMap, IInv, TypeOK
  <1>6. TypeOK'
    <2>1. /\ marker' \in {"never", "recent", "past"} /\ reloading' \in BOOLEAN
          /\ live' \subseteq Mount
      BY <1>2 DEF IInv, TypeOK, recovery
    <2>2. FreshMap BY DEF MountMap
    <2>3. /\ DOMAIN circles' \subseteq Cell /\ grouped' \subseteq Listing
          /\ {region', highlight', picked'} \subseteq Areas
          /\ framed' \in Position \cup {None, "groups"} /\ zoom' \in Zoom /\ zooming' \in BOOLEAN
          /\ layersReady' = FALSE /\ currentRes' \in Resolutions
      BY <2>2, FreshMapIsEmpty DEF Areas
    <2> QED BY <1>3, <1>5, <1>4, <2>1, <2>3 DEF TypeOK
  <1>7. mounts' \notin live' /\ imports' \cap live' = {} BY <1>2
  <1> QED BY <1>2, <1>6, <1>7, FreshInv DEF MountMap

LEMMA UnmountMapInv ==
  ASSUME IInv, UnmountMap, listings' \in SUBSET Listing, ~(home' /\ listings' # {}),
         home' \in BOOLEAN, area' \in Areas, goal' \in Areas \cup {NoGoal}, UNCHANGED recovery,
         userLocation' \in Position \cup {None}, locating' \in BOOLEAN,
         goal' # NoGoal \/ locating' => home'
  PROVE  IInv'
  <1>1. live' = {} BY DEF UnmountMap, IInv, NoMapLeftBehind
  <1>2. TypeOK'
    BY <1>1, FreshMapIsEmpty DEF UnmountMap, IInv, TypeOK, recovery, Areas, Mount
  <1> QED BY <1>1, <1>2, FreshInv DEF UnmountMap

(* The page without a map.                                                 *)
LEMMA NoMapInv ==
  ASSUME IInv, ~mounted, NoMap, listings' \in SUBSET Listing, ~(home' /\ listings' # {}),
         home' \in BOOLEAN, area' \in Areas, goal' \in Areas \cup {NoGoal}, UNCHANGED recovery,
         userLocation' \in Position \cup {None}, locating' \in BOOLEAN,
         goal' # NoGoal \/ locating' => home'
  PROVE  IInv'
  <1>1. live = {} /\ ~layersReady BY NothingDrawnUnmounted
  <1>2. TypeOK' BY <1>1 DEF NoMap, IInv, TypeOK, recovery, drawing, camera, Areas
  <1> QED
    BY <1>1, <1>2 DEF NoMap, IInv, drawing, camera, NoMapLeftBehind, ImportedOnce, OneResolution,
       CirclesHoldTheirs, Drawn, listingMatchesArea, GroupsFitZoom, SelectionIsOutlined,
       ChoiceFits, MapIsWhereAsked, HasMap

LEMMA EnterInv == ASSUME IInv, Enter PROVE IInv'
  <1>1. ~mounted BY DEF Enter, IInv, TypeOK
  <1>2. CASE listings' = {} BY <1>1, <1>2, NoMapInv DEF Enter
  <1>3. CASE listings' # {} BY <1>1, <1>3, MountMapInv DEF Enter
  <1> QED BY <1>2, <1>3

LEMMA LeaveInv == ASSUME IInv, Leave PROVE IInv'
  <1>1. None \in Areas BY DEF Areas
  <1>2. CASE mounted BY <1>1, <1>2, UnmountMapInv DEF Leave
  <1>3. CASE ~mounted BY <1>1, <1>3, NoMapInv DEF Leave
  <1> QED BY <1>2, <1>3

LEMMA ReloadedInv == ASSUME IInv, Reloaded PROVE IInv'
  <1>1. /\ home /\ listings' \in SUBSET Listing
        /\ UNCHANGED <<home, area, goal, userLocation, locating>> /\ UNCHANGED recovery
    BY DEF Reloaded, recovery
  <1>2. TypeOK BY DEF IInv
  <1>3. CASE mounted /\ listings' = {}
    <2>1. UnmountMap BY <1>3 DEF Reloaded
    <2> QED BY <1>1, <1>2, <1>3, <2>1, UnmountMapInv DEF TypeOK
  <1>4. CASE ~mounted /\ listings' # {}
    <2>1. MountMap BY <1>4 DEF Reloaded
    <2> QED BY <1>1, <1>2, <1>4, <2>1, MountMapInv DEF TypeOK
  <1>5. CASE ~(mounted /\ listings' = {}) /\ ~(~mounted /\ listings' # {})
    <2>1. UNCHANGED <<lifetime, drawing, camera, picked>> BY <1>5 DEF Reloaded
    <2>2. TypeOK'
      BY <1>1, <1>5, <2>1 DEF IInv, TypeOK, recovery, lifetime, drawing, camera
    <2> QED
      BY <1>1, <2>1, <2>2 DEF IInv, lifetime, drawing, camera, NoMapLeftBehind, ImportedOnce,
         OneResolution, CirclesHoldTheirs, Drawn, listingMatchesArea, GroupsFitZoom,
         SelectionIsOutlined, ChoiceFits, MapIsWhereAsked, HasMap
  <1> QED BY <1>3, <1>4, <1>5

-----------------------------------------------------------------------------
(* An import of an earlier mount, or one that makes the map.               *)
LEMMA ImportedInv == ASSUME IInv, NEW m \in Mount, Imported(m) PROVE IInv'
  <1>1. /\ m \in imports /\ imports' = imports \ {m}
        /\ UNCHANGED <<page, recovery, mounts, mounted, skeleton, picked>>
    BY DEF Imported
  <1>2. CASE mounted /\ m = mounts
    <2>1. setupMap(m) BY <1>2 DEF Imported
    <2>2. ~layersReady BY <1>1, <1>2 DEF IInv, TypeOK, ImportedOnce
    <2>3. live' = {mounts} /\ mounts' \notin imports'
      BY <1>1, <1>2, <2>1 DEF IInv, NoMapLeftBehind, setupMap
    <2>4. /\ framed' \in Position \cup {None, "groups"} /\ zoom' \in Zoom
          /\ userLocation # None => framed' = userLocation
      BY <2>1, MapConstants DEF setupMap, planListingsMapCamera, IInv, TypeOK
    <2>5. TypeOK'
      BY <1>1, <1>2, <2>1, <2>2, <2>3, <2>4 DEF IInv, TypeOK, setupMap, page, recovery
    <2> QED
      BY <1>1, <1>2, <2>1, <2>2, <2>3, <2>4, <2>5
      DEF setupMap, page, IInv, NoMapLeftBehind, ImportedOnce, OneResolution, CirclesHoldTheirs,
          Drawn, listingMatchesArea, GroupsFitZoom, SelectionIsOutlined, ChoiceFits,
          MapIsWhereAsked, HasMap
  <1>3. CASE ~(mounted /\ m = mounts)
    <2>1. UNCHANGED <<live, camera, drawing>> BY <1>3 DEF Imported
    <2>2. TypeOK' BY <1>1, <2>1 DEF IInv, TypeOK, page, recovery, camera, drawing
    <2> QED
      BY <1>1, <2>1, <2>2
      DEF page, camera, drawing, IInv, NoMapLeftBehind, ImportedOnce, OneResolution,
          CirclesHoldTheirs, Drawn, listingMatchesArea, GroupsFitZoom, SelectionIsOutlined,
          ChoiceFits, MapIsWhereAsked, HasMap
  <1> QED BY <1>2, <1>3

(* Steps that draw nothing and move nothing.                               *)
LEMMA PictureStays ==
  ASSUME IInv, TypeOK', UNCHANGED <<page, mounts, mounted, live, drawing, camera, picked>>,
         imports' \subseteq imports
  PROVE  IInv'
  BY DEF page, camera, drawing, IInv, NoMapLeftBehind, ImportedOnce, OneResolution,
     CirclesHoldTheirs, Drawn, listingMatchesArea, GroupsFitZoom, SelectionIsOutlined,
     ChoiceFits, MapIsWhereAsked, HasMap

LEMMA ImportFailsInv == ASSUME IInv, NEW m \in Mount, ImportFails(m) PROVE IInv'
  <1>1. /\ imports' \subseteq imports /\ skeleton' \in BOOLEAN
        /\ UNCHANGED <<page, mounts, mounted, live, drawing, camera, picked>>
    BY DEF ImportFails, IInv, TypeOK
  <1>2. marker' \in {"never", "recent", "past"} /\ reloading' \in BOOLEAN
    BY DEF ImportFails, preloadErrorHandler, recovery, IInv, TypeOK
  <1>3. TypeOK' BY <1>1, <1>2 DEF IInv, TypeOK, page, drawing, camera
  <1> QED BY <1>1, <1>3, PictureStays

LEMMA WindowLapsesInv == ASSUME IInv, WindowLapses PROVE IInv'
  <1>1. TypeOK' BY DEF WindowLapses, IInv, TypeOK, page, lifetime, drawing, camera
  <1> QED BY <1>1, PictureStays DEF WindowLapses, lifetime

LEMMA MapErrorsInv == ASSUME IInv, MapErrors PROVE IInv'
  <1>1. TypeOK' BY DEF MapErrors, IInv, TypeOK, page, recovery, drawing, camera
  <1> QED BY <1>1, PictureStays DEF MapErrors

LEMMA ReloadInv == ASSUME IInv, Reload PROVE IInv'
  <1>1. FreshMap BY DEF Reload, FreshTab
  <1>2. TypeOK'
    <2>1. mounts' \in 0..MaxMounts
      <3>1. mounts' = 0 /\ MaxMounts \in Nat BY MapConstants DEF Reload, FreshTab
      <3> QED BY <3>1
    <2>2. mounted' = FALSE /\ mounted' = (home' /\ listings' # {}) BY DEF Reload, FreshTab
    <2>3. /\ DOMAIN circles' \subseteq Cell /\ grouped' \subseteq Listing
          /\ {region', highlight', picked'} \subseteq Areas
          /\ framed' \in Position \cup {None, "groups"} /\ zoom' \in Zoom /\ zooming' \in BOOLEAN
          /\ layersReady' = FALSE /\ currentRes' \in Resolutions
      BY <1>1, FreshMapIsEmpty DEF Areas
    <2>4. reloading' = FALSE /\ marker' \in {"never", "recent", "past"}
      BY DEF Reload, IInv, TypeOK
    <2> QED BY <2>1, <2>2, <2>3, <2>4 DEF Reload, FreshTab, TypeOK, Areas
  <1> QED BY <1>1, <1>2, FreshInv DEF Reload, FreshTab

(* The layers of a map that has none.                                      *)
LEMMA MapLoadsInv == ASSUME IInv, MapLoads PROVE IInv'
  <1> DEFINE r == zoomToH3Resolution(zoom)
  <1> USE DEF IInv
  <1>1. r \in Resolutions BY ResolutionsOfZooms DEF TypeOK
  <1>2. PICK ls \in SUBSET Listing : currentRes' = r /\ circles' = groupByH3(ls, r)
    <2>1. listings \in SUBSET Listing /\ grouped \in SUBSET Listing BY DEF TypeOK
    <2> QED BY <2>1 DEF MapLoads, addGroupLayers, updateGroupSource
  <1> HIDE DEF r
  <1>3. /\ DOMAIN circles' \subseteq Cell /\ OneResolution' /\ CirclesHoldTheirs'
        /\ \A c \in DOMAIN circles' : Res[c] = currentRes'
    BY <1>1, <1>2, NewCircles
  <1>4. /\ UNCHANGED <<page, recovery, mounts, mounted, imports, live, grouped, camera, picked>>
        /\ layersReady' = TRUE /\ skeleton' = FALSE /\ HasMap /\ ~layersReady
        /\ region' = area /\ highlight' = area
    BY DEF MapLoads, addRegionLayers
  <1>5. TypeOK'
    BY <1>1, <1>2, <1>3, <1>4 DEF TypeOK, page, recovery, camera, HasMap
  <1>6. GroupsFitZoom' BY <1>2, <1>3, <1>4 DEF camera, GroupsFitZoom, r
  <1> QED
    BY <1>3, <1>4, <1>5, <1>6 DEF page, camera, NoMapLeftBehind, ImportedOnce,
       SelectionIsOutlined, ChoiceFits, MapIsWhereAsked, HasMap

LEMMA ZoomsInv == ASSUME IInv, Zooms PROVE IInv'
  <1>1. TypeOK' BY DEF Zooms, IInv, TypeOK, page, recovery, lifetime, drawing
  <1> QED
    BY <1>1 DEF Zooms, page, lifetime, drawing, IInv, NoMapLeftBehind, ImportedOnce,
       OneResolution, CirclesHoldTheirs, Drawn, listingMatchesArea, GroupsFitZoom,
       SelectionIsOutlined, ChoiceFits, MapIsWhereAsked, HasMap

(* Other circles, and the navigation that clears the area.                 *)
LEMMA ZoomEndsInv == ASSUME IInv, ZoomEnds PROVE IInv'
  <1> DEFINE r == zoomToH3Resolution(zoom)
  <1> USE DEF IInv
  <1>1. /\ UNCHANGED <<home, listings, area, userLocation, locating, layersReady, grouped,
                       region, highlight, framed, zoom, picked>>
        /\ UNCHANGED recovery /\ UNCHANGED lifetime
        /\ HasMap /\ zooming' = FALSE
    BY DEF ZoomEnds
  <1>2. CASE layersReady /\ r # currentRes
    <2>1. /\ currentRes' = r /\ circles' = groupByH3(listings, r) /\ goal' = None
      BY <1>2 DEF ZoomEnds, updateGroupSource
    <2>2. r \in Resolutions /\ listings \in SUBSET Listing BY ResolutionsOfZooms DEF TypeOK
    <2> HIDE DEF r
    <2>3. /\ DOMAIN circles' \subseteq Cell /\ OneResolution' /\ CirclesHoldTheirs'
          /\ \A c \in DOMAIN circles' : Res[c] = currentRes'
      BY <2>1, <2>2, NewCircles
    <2>4. TypeOK'
      <3>1. home' /\ goal' \in Areas BY <1>1, <2>1 DEF TypeOK, HasMap, Areas
      <3> QED BY <1>1, <2>1, <2>2, <2>3, <3>1 DEF TypeOK, recovery, lifetime
    <2>5. GroupsFitZoom' BY <1>1, <2>1, <2>3 DEF GroupsFitZoom, r
    <2>6. NoGoal # None BY MapConstants
    <2> QED
      BY <1>1, <1>2, <2>1, <2>3, <2>4, <2>5, <2>6 DEF lifetime, NoMapLeftBehind, ImportedOnce,
         SelectionIsOutlined, ChoiceFits, MapIsWhereAsked, HasMap
  <1>3. CASE ~(layersReady /\ r # currentRes)
    <2>1. UNCHANGED <<currentRes, circles, goal>> BY <1>3 DEF ZoomEnds
    <2>2. TypeOK' BY <1>1, <2>1 DEF TypeOK, recovery, lifetime
    <2>3. GroupsFitZoom' BY <1>1, <1>3, <2>1 DEF GroupsFitZoom, OneResolution
    <2> QED
      BY <1>1, <2>1, <2>2, <2>3 DEF lifetime, NoMapLeftBehind, ImportedOnce, OneResolution,
         CirclesHoldTheirs, Drawn, listingMatchesArea, SelectionIsOutlined, ChoiceFits,
         MapIsWhereAsked, HasMap
  <1> QED BY <1>2, <1>3

(* What the visitor does on the page leaves the circles as they are.       *)
LEMMA CirclesStay ==
  ASSUME IInv, TypeOK', UNCHANGED <<lifetime, layersReady, currentRes, circles, zoom, zooming>>,
         SelectionIsOutlined', ChoiceFits', MapIsWhereAsked'
  PROVE  IInv'
  BY DEF lifetime, IInv, NoMapLeftBehind, ImportedOnce, OneResolution, CirclesHoldTheirs, Drawn,
     listingMatchesArea, GroupsFitZoom

LEMMA ClickCircleInv == ASSUME IInv, NEW c \in Cell, ClickCircle(c) PROVE IInv'
  <1> USE DEF IInv
  <1>1. home BY DEF ClickCircle, TypeOK, NoMapLeftBehind
  <1>2. goal' \in Areas /\ picked' = goal' /\ goal' \in {None, c} /\ goal' # area'
    BY MapConstants DEF ClickCircle, Areas
  <1>3. /\ Res[c] = currentRes /\ layersReady
        /\ UNCHANGED <<lifetime, drawing, camera, home, listings, area, userLocation, locating>>
    BY DEF ClickCircle, OneResolution
  <1>4. TypeOK'
    BY <1>1, <1>2, <1>3 DEF ClickCircle, TypeOK, recovery, lifetime, drawing, camera
  <1>5. ChoiceFits' BY <1>2, <1>3 DEF ChoiceFits, drawing
  <1> QED
    BY <1>3, <1>4, <1>5, CirclesStay DEF lifetime, drawing, camera, SelectionIsOutlined,
       MapIsWhereAsked, HasMap

LEMMA ShowAllInv == ASSUME IInv, ShowAll PROVE IInv'
  <1> USE DEF IInv
  <1>1. NoGoal # None /\ home BY MapConstants DEF ShowAll, TypeOK
  <1>2. TypeOK'
    <2>1. home' /\ goal' \in Areas BY <1>1 DEF ShowAll, Areas
    <2> QED BY <2>1 DEF ShowAll, TypeOK, recovery, lifetime, drawing, camera
  <1>3. ChoiceFits' BY <1>1 DEF ShowAll, ChoiceFits, drawing
  <1> QED
    BY <1>2, <1>3, CirclesStay DEF ShowAll, lifetime, drawing, camera, SelectionIsOutlined,
       MapIsWhereAsked, HasMap

(* The header's link and the browser's history: no choice is remembered.   *)
LEMMA LeadsAwayInv == ASSUME IInv, FollowLogo \/ Traverse PROVE IInv'
  <1> USE DEF IInv
  <1>1. PICK g \in Areas : LeadsAwayTo(g)
    <2>1. None \in Areas BY DEF Areas
    <2> QED BY <2>1 DEF FollowLogo, Traverse
  <1>2. /\ home /\ goal' = g /\ picked' = None
        /\ UNCHANGED <<home, listings, area, userLocation, locating>>
        /\ UNCHANGED recovery /\ UNCHANGED lifetime /\ UNCHANGED drawing /\ UNCHANGED camera
    BY <1>1 DEF LeadsAwayTo
  <1>3. TypeOK'
    <2>1. None \in Areas BY DEF Areas
    <2> QED BY <1>2, <2>1 DEF TypeOK, recovery, lifetime, drawing, camera
  <1>4. ChoiceFits' BY <1>2 DEF ChoiceFits
  <1> QED
    BY <1>2, <1>3, <1>4, CirclesStay DEF lifetime, drawing, camera, SelectionIsOutlined,
       MapIsWhereAsked, HasMap

LEMMA NavigatedInv == ASSUME IInv, Navigated PROVE IInv'
  <1> USE DEF IInv
  <1>1. /\ area' = goal /\ goal' = NoGoal /\ goal \in Areas /\ home
        /\ UNCHANGED <<home, listings, userLocation, locating, layersReady, currentRes, grouped,
                       circles, camera, picked>>
        /\ UNCHANGED recovery /\ UNCHANGED lifetime
    BY DEF Navigated, TypeOK
  <1>2. /\ layersReady => region' = area' /\ highlight' = area'
        /\ ~layersReady => UNCHANGED <<region, highlight>>
    BY DEF Navigated, updateHighlight, updateRegion
  <1>3. TypeOK' BY <1>1, <1>2 DEF TypeOK, recovery, lifetime, camera
  <1>4. NoGoal \notin Areas BY MapConstants DEF Areas
  <1>5. ChoiceFits' BY <1>1, <1>4 DEF ChoiceFits, TypeOK
  <1>6. SelectionIsOutlined' BY <1>1, <1>2 DEF SelectionIsOutlined
  <1> QED
    BY <1>1, <1>3, <1>5, <1>6, CirclesStay DEF lifetime, camera, MapIsWhereAsked, HasMap

LEMMA LocatingInv == ASSUME IInv, centerOnMyLocation \/ Located PROVE IInv'
  <1> USE DEF IInv
  <1>1. /\ UNCHANGED <<home, listings, area, goal, recovery, lifetime, drawing, zoom, zooming, picked>>
        /\ locating' \in BOOLEAN /\ (locating' => home)
    BY DEF centerOnMyLocation, Located, camera
  <1>2. /\ userLocation' \in Position \cup {None}
        /\ framed' \in Position \cup {None, "groups"}
        /\ MapIsWhereAsked'
    <2>1. CASE UNCHANGED <<userLocation, framed>>
      BY <1>1, <2>1 DEF TypeOK, lifetime, MapIsWhereAsked, HasMap
    <2>2. CASE /\ userLocation' \in Position
               /\ framed' = IF HasMap THEN userLocation' ELSE framed
      BY <1>1, <2>2 DEF TypeOK, lifetime, MapIsWhereAsked, HasMap
    <2> QED BY <2>1, <2>2 DEF centerOnMyLocation, Located, camera
  <1>3. TypeOK' BY <1>1, <1>2 DEF TypeOK, recovery, lifetime, drawing, centerOnMyLocation, Located
  <1>4. SelectionIsOutlined' /\ ChoiceFits'
    BY <1>1 DEF drawing, SelectionIsOutlined, ChoiceFits
  <1> QED BY <1>1, <1>2, <1>3, <1>4, CirclesStay DEF drawing

LEMMA NextInv == IInv /\ [Next]_vars => IInv'
  <1> SUFFICES ASSUME IInv, [Next]_vars PROVE IInv' OBVIOUS
  <1>1. CASE Next
    BY <1>1, EnterInv, LeaveInv, ReloadedInv, ImportedInv, ImportFailsInv, WindowLapsesInv,
       ReloadInv, MapLoadsInv, MapErrorsInv, ZoomsInv, ZoomEndsInv, ClickCircleInv, ShowAllInv,
       LeadsAwayInv, NavigatedInv, LocatingInv DEF Next
  <1>2. CASE UNCHANGED vars
    <2>1. TypeOK'
      BY <1>2 DEF vars, IInv, TypeOK, page, recovery, lifetime, drawing, camera
    <2> QED BY <1>2, <2>1, PictureStays DEF vars, lifetime
  <1> QED BY <1>1, <1>2

(* The map, its circles and the choice made on them keep together, and     *)
(* with what the page shows.                                               *)
THEOREM InductiveInvariant == Spec => []IInv
  BY InitInv, NextInv, PTL DEF Spec

-----------------------------------------------------------------------------
(* One map at a time is drawn on the page, and none that was left behind.  *)
(* Its circles fit its zoom and count the listings they hold; the area of  *)
(* the address bar is the one outlined; and an area that was chosen on the *)
(* map, with no link or history entry followed since, fits the circles.    *)
THEOREM MapInvHolds == Spec => []MapInv
  <1>1. IInv => MapInv
    <2> SUFFICES ASSUME IInv PROVE MapInv OBVIOUS
    <2>1. CircleCountsItsCards
      BY DEF IInv, CirclesHoldTheirs, Drawn, CircleCountsItsCards, visibleListings
    <2>2. PickedAreaFitsCircles BY DEF IInv, ChoiceFits, PickedAreaFitsCircles
    <2> QED BY <2>1, <2>2 DEF IInv, MapInv
  <1> QED BY <1>1, InductiveInvariant, PTL
=============================================================================
