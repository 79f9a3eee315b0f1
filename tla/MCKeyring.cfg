\* Keys are handed out for one unit and kept for two; two units pass, so that keys
\* get old and expire within a handshake.  Every handshake ends once, and then nothing
\* is left to do.
SPECIFICATION KeyringSpec
CHECK_DEADLOCK FALSE
CONSTANTS
    Handshakes = {"a1", "a2", "b1"}
    process <- MCProcess
    Ids = {1, 2}
    OldKeys <- MCOldKeys
    NEW_KEY_TIMEOUT = 1
    EXPIRE_KEYS_TIMEOUT = 2
    MaxTime = 2
INVARIANTS
    KeyringTypeOK
    PromptHandshakesSucceed
