----------------------------- MODULE KeymapStore -----------------------------
(***************************************************************************)
(* What the settings component promises its callers about the dynamic      *)
(* keymap, whatever the flash does: the abstract specification that module *)
(* Persistence is shown to implement.                                      *)
(*                                                                         *)
(* The store holds one whole keymap, labelled with the firmware build that *)
(* wrote it, or nothing usable.  A keymap is never half old and half new.  *)
(* "persisted" is only ever said of a keymap a reboot would bring back, a  *)
(* failed save freezes the store until the next boot, and a build never    *)
(* adopts the keymap of another build.                                     *)
(***************************************************************************)
CONSTANTS Keys, Codes, Builds, Default

VARIABLES up,      \* is the firmware running?
          build,   \* identity of the flashed firmware build
          live,    \* keymap in RAM, the one key events are looked up in
          stored,  \* what a boot would find in flash
          status   \* what the component says of the live keymap

storeVars == <<up, build, live, stored, status>>

Keymap == [Keys -> Codes]
Nothing == [whole |-> FALSE]
Copy(b, m) == [whole |-> TRUE, by |-> b, map |-> m]

Status == {"off", "saving", "persisted", "ram_only"}

StoreInit ==
    /\ up = FALSE
    /\ build \in Builds
    /\ live = Default
    /\ stored = Nothing
    /\ status = "off"

(* The keymap of this very build is adopted; anything else is dropped and  *)
(* the built-in keymap becomes the one to save.                            *)
Boot ==
    /\ ~up
    /\ up' = TRUE
    /\ \/ /\ stored.whole /\ stored.by = build
          /\ live' = stored.map
          /\ status' = "persisted"
       \/ /\ ~(stored.whole /\ stored.by = build)
          /\ live' = Default
          /\ status' = "saving"
    /\ UNCHANGED <<build, stored>>

(* One key is remapped, or the whole keymap is reset.  After a failed save *)
(* only RAM changes.                                                       *)
Edit ==
    /\ up /\ status # "saving"
    /\ \/ \E k \in Keys, c \in Codes : live' = [live EXCEPT ![k] = c]
       \/ live' = Default
    /\ status' = IF status = "ram_only" THEN "ram_only" ELSE "saving"
    /\ UNCHANGED <<up, build, stored>>

(* A save under way may lose the old copy before the new one is whole, may *)
(* fail at any point, and may report success once the new one is whole.    *)
Save ==
    /\ up /\ status = "saving"
    /\ stored' \in {stored, Nothing, Copy(build, live)}
    /\ status' \in {"saving", "ram_only", "persisted"}
    /\ status' = "persisted" => stored' = Copy(build, live)
    /\ UNCHANGED <<up, build, live>>

PowerOff ==
    /\ up
    /\ up' = FALSE
    /\ live' = Default
    /\ status' = "off"
    /\ UNCHANGED <<build, stored>>

Update(b) ==
    /\ ~up
    /\ build' = b
    /\ UNCHANGED <<up, live, stored, status>>

StoreNext ==
    \/ Boot \/ Edit \/ Save \/ PowerOff
    \/ \E b \in Builds : Update(b)

StoreSpec == StoreInit /\ [][StoreNext]_storeVars

\* What is called persisted is the live keymap, whole, and of this build.
PersistedIsStored == status = "persisted" => stored = Copy(build, live)

\* The copy is touched by a save under way and by nothing else: what was
\* persisted stays, over boots, losses of power and updates, until the next
\* save begins.
StoredStays == [][stored' # stored => status = "saving"]_storeVars
=============================================================================
