SPECIFICATION JournalSpec
CONSTANTS
  Snapshots = {s1, s2}
  NoSave = NoSave
  SeqMod = 8
PROPERTY Durable
