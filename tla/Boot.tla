-------------------------------- MODULE Boot --------------------------------
(***************************************************************************)
(* The start of the robot (app_main, boot_manager and its shell, the shells*)
(* of watchdog and ota) and the settings it knows (app_config and its      *)
(* shell).  They are meant to be a cache over NVS, but the names of these  *)
(* two are longer than the 15 characters of an NVS key, so every nvs_get   *)
(* and nvs_set of them fails and a boot starts from the defaults.  Two     *)
(* tasks meet here: app_main restores the volume while the face task may   *)
(* already be serving a DEVICE_CONFIG that sets it.                        *)
(***************************************************************************)
EXTENDS Integers

CONSTANT Volumes   \* a setting of the volume, in percent

ASSUME BootAssumption == Volumes \subseteq 0..100

Unset == -1    \* a key that has no value yet
Settings == {"volume", "streak"}
Default == [volume |-> 100, streak |-> 0]
MaxValue == [volume |-> 100, streak |-> 255]

VARIABLES step,       \* where app_main is
          order,      \* where the face task is with a DEVICE_CONFIG
          wanted,     \* the volume that order is about
          cache,      \* the settings in memory (is_set, values)
          hasConfig,  \* app_config has its mutex: it is initialised
          outcome, reason, \* of the boot report
          image,      \* the image that runs, to the bootloader
          ready,      \* s_initialized of the playback shell
          heard,      \* s_volume_percent
          kept,       \* persisted_volume_percent of app_main
          raced       \* history: an order overlapped the restoring

settings == <<cache, hasConfig>>
report == <<outcome, reason>>
sound == <<ready, heard, kept, raced>>
face == <<order, wanted>>
bootVars == <<step, face, settings, report, image, sound>>

(* nb_config_get_u32: the default until a value is set.                    *)
Value(key) == IF cache[key] = Unset THEN Default[key] ELSE cache[key]

(* nb_app_config_shell_set_u32: out of range changes nothing.  A value that*)
(* differs is handed to nvs_set_u32 under a key NVS refuses for its length,*)
(* and what NVS says is ignored: only the memory has it.                   *)
SetU32(key, v) ==
  cache' = IF hasConfig /\ v <= MaxValue[key] THEN [cache EXCEPT ![key] = v] ELSE cache

(* nb_boot_manager_end_phase of a critical phase: the first failure gives  *)
(* the outcome and the reason, for good.                                   *)
EndPhase(name, success) ==
  IF success
  THEN outcome' = (IF outcome = "PENDING" THEN "OK" ELSE outcome) /\ UNCHANGED reason
  ELSE outcome' = "SAFE_MODE" /\ reason' = IF outcome = "SAFE_MODE" THEN reason ELSE name

-----------------------------------------------------------------------------
BootInit ==
  /\ step = "logger" /\ order = "none" /\ wanted = 100
  /\ cache = [k \in Settings |-> Unset] /\ hasConfig = FALSE
  /\ outcome = "PENDING" /\ reason = "none"
  /\ image \in {"valid", "pending"}
  /\ ready = FALSE /\ heard = 100 /\ kept = 100
  /\ raced = FALSE

LoggerPhase ==
  /\ step = "logger" /\ step' = "config"
  /\ \E ok \in BOOLEAN : EndPhase("logger", ok)
  /\ UNCHANGED <<face, settings, image, sound>>

(* Without NVS or its mutex app_config stays out for the whole boot; with  *)
(* them nb_config_init has unset every value and nvs_get_u32 finds none of *)
(* these.  An NVS that must be erased first is one of the two as well: the *)
(* erase has nothing of these settings to lose, and its ESP_ERROR_CHECK is *)
(* a Reboot.                                                               *)
ConfigPhase ==
  /\ step = "config" /\ step' = "streak"
  /\ \E ok \in BOOLEAN : EndPhase("app_config", ok) /\ hasConfig' = ok
  /\ cache' = [k \in Settings |-> Unset]
  /\ UNCHANGED <<face, image, sound>>

(* The end of nb_boot_manager_shell_run. *)
RecordStreak ==
  /\ step = "streak" /\ step' = "watchdog"
  /\ SetU32("streak", IF outcome = "SAFE_MODE" THEN Value("streak") + 1 ELSE 0)
  /\ UNCHANGED <<face, hasConfig, report, image, sound>>

(* Power off, a panic, a failed ESP_ERROR_CHECK or the task watchdog: what *)
(* is in memory is gone.  The bootloader gives an image that was not       *)
(* confirmed by its first boot up for the one before.                      *)
Rebooted ==
  /\ step' = "logger" /\ order' = "none" /\ wanted' = 100
  /\ cache' = [k \in Settings |-> Unset] /\ hasConfig' = FALSE
  /\ outcome' = "PENDING" /\ reason' = "none"
  /\ image' = IF image = "pending" THEN "rolled back" ELSE image
  /\ ready' = FALSE /\ heard' = 100 /\ kept' = 100 /\ raced' = FALSE

Reboot == step # "logger" /\ Rebooted

(* nb_watchdog_shell_init and the services up to the wake service, which   *)
(* go on without what they could not start.                                *)
StartServices ==
  /\ step = "watchdog" /\ step' = "ota"
  /\ UNCHANGED <<face, settings, report, image, sound>>

(* nb_ota_shell_confirm_boot_if_pending, then the display, whose task      *)
(* drains the bus, and the touch.  A confirmation that fails is logged.    *)
ConfirmImage ==
  /\ step = "ota" /\ step' = "audio"
  /\ \E done \in BOOLEAN :
       image' = IF done /\ outcome = "OK" /\ image = "pending" THEN "valid" ELSE image
  /\ UNCHANGED <<face, settings, report, sound>>

(* nb_audio_hal_shell_init: without sound the volume is left alone.        *)
AudioUp ==
  /\ step = "audio"
  /\ step' \in {"check", "silent"}
  /\ raced' = (order # "none")
  /\ UNCHANGED <<face, settings, report, image, ready, heard, kept>>

(* nb_audio_playback_service_shell_init: the test of s_initialized, and    *)
(* the work; the face task may come between the two.                       *)
CheckInit ==
  /\ step = "check" /\ step' = IF ready THEN "read" ELSE "init"
  /\ UNCHANGED <<face, settings, report, image, sound>>
PlaybackInit ==
  /\ step = "init" /\ step' = "read"
  /\ ready' = TRUE /\ heard' = 100
  /\ UNCHANGED <<face, settings, report, image, kept, raced>>

ReadKept ==
  /\ step = "read"
  /\ IF hasConfig THEN kept' = Value("volume") /\ step' = "restore"
     ELSE UNCHANGED kept /\ step' = "loop"
  /\ UNCHANGED <<face, settings, report, image, ready, heard, raced>>
Restore ==
  /\ step = "restore" /\ step' = "loop"
  /\ heard' = kept
  /\ UNCHANGED <<face, settings, report, image, ready, kept, raced>>

(* DEVICE_CONFIG in the face task: the playback shell, initialised if it   *)
(* must be, takes the volume, then app_config does.                        *)
Serving == step \in {"audio", "check", "init", "read", "restore", "loop", "silent"}
Restoring == step \in {"check", "init", "read", "restore"}

OrderComes ==
  /\ order = "none" /\ Serving
  /\ wanted' \in Volumes
  /\ order' = IF ready THEN "set" ELSE "init"
  /\ raced' = Restoring
  /\ UNCHANGED <<step, settings, report, image, ready, heard, kept>>
OrderInit ==
  /\ order = "init" /\ order' = "set"
  /\ ready' = TRUE /\ heard' = 100
  /\ UNCHANGED <<step, wanted, settings, report, image, kept, raced>>
(* Mutant: the order is kept, and not heard. *)
OrderSetKept ==
  /\ order = "set" /\ order' = "save"
  /\ UNCHANGED <<step, wanted, settings, report, image, sound>>
OrderSet ==
  /\ order = "set" /\ order' = "save"
  /\ heard' = wanted
  /\ UNCHANGED <<step, wanted, settings, report, image, ready, kept, raced>>
OrderSave ==
  /\ order = "save" /\ order' = "none"
  /\ SetU32("volume", wanted)
  /\ UNCHANGED <<step, wanted, hasConfig, report, image, sound>>

BootNext ==
  \/ LoggerPhase \/ ConfigPhase \/ RecordStreak \/ StartServices \/ ConfirmImage
  \/ AudioUp \/ CheckInit \/ PlaybackInit \/ ReadKept \/ Restore
  \/ OrderComes \/ OrderInit \/ OrderSet \/ OrderSave \/ Reboot
BootSpec == BootInit /\ [][BootNext]_bootVars

-----------------------------------------------------------------------------
(* The volume heard is the one app_config knows, whatever failed before,   *)
(* unless an order was served while app_main was putting the kept volume   *)
(* back (app_main, DEVICE_CONFIG in the shell of reflex_engine).           *)
VolumeIsRestored ==
  step = "loop" /\ hasConfig /\ order = "none" /\ ~raced
    => heard = Value("volume")
=============================================================================
